---- MODULE Spec2Model ----
(***************************************************************************)
(* ATM ledger of slash827/ATM-System.                                      *)
(*                                                                         *)
(* The repository holds three ledgers.  `impl` says which one is deployed: *)
(*   "test" backend/api/accounts.py over backend/database/test_db.py       *)
(*   "mem"  legacy/routers/accounts.py over legacy/database.py             *)
(*          (routers/accounts.py over database.py is its deposit/withdraw  *)
(*          subset, line for line)                                         *)
(*   "pg"   legacy/routers/accounts_pg.py, backend/database/__init__.py    *)
(*          and legacy/database_pg.py over the relational store            *)
(*                                                                         *)
(* Money is python's decimal.Decimal: a record [c, e] of value c * 10^e.   *)
(***************************************************************************)
EXTENDS Integers, Sequences, FiniteSets, TLC

VARIABLES impl, accounts, time_deposits, journal, now, resp, before,
          deposits_before, earlier, threads, horizon,
          requests, forwarded, instance, initialized

vars == <<impl, accounts, time_deposits, journal, now, resp, before,
          deposits_before, earlier, threads, horizon,
          requests, forwarded, instance, initialized>>

\* the state of the process beside its ledger: the lists of
\* RateLimitMiddleware and the requests it passed on, and the class
\* attributes of TestDatabase
process == <<requests, forwarded, instance, initialized>>

(***************************************************************************)
(* Bounds of the model.                                                    *)
(***************************************************************************)
MaxTime == 2

\* stored writes followed when deposits and withdrawals alternate
MaxRoundTripTime == 4

\* deposits of 10000 followed one after another
MaxCeilingTime == 100

\* time deposits created one after another, and their longest duration
MaxRateTime == 1

MaxDuration == 61

\* commits before a transaction history is read
MaxHistoryTime == 3

NThreads == 2

\* RateLimitMiddleware(app, calls, period): the requests a client may make in
\* a period, and the seconds of a period
calls == 2

period == 2

\* the seconds the clock of the middleware runs
MaxLimiterTime == 4

(***************************************************************************)
(* decimal.Decimal                                                         *)
(***************************************************************************)
RECURSIVE Pow10(_)
Pow10(n) == IF n <= 0 THEN 1 ELSE 10 * Pow10(n - 1)

Dec(c, e) == [c |-> c, e |-> e]

MinE(a, b) == IF a.e < b.e THEN a.e ELSE b.e

\* the coefficient of d written with exponent e <= d.e
Scale(d, e) == d.c * Pow10(d.e - e)

\* Stored money keeps its value; trailing fraction zeros beyond the cent carry
\* no information (Decimal compares by value), so a stored value is written
\* with the largest exponent <= -2 that represents it exactly.
RECURSIVE Norm(_)
Norm(d) ==
    IF d.e > -2 THEN Dec(Scale(d, -2), -2)
    ELSE IF d.e < -2 /\ d.c % 10 = 0 THEN Norm(Dec(d.c \div 10, d.e + 1))
    ELSE d

DecAdd(a, b) == Norm(Dec(Scale(a, MinE(a, b)) + Scale(b, MinE(a, b)), MinE(a, b)))

\* faulty variant of DecSub: b is cut to one decimal place before it is taken
DecSubCut(a, b) ==
    LET cut == IF b.e < -1 THEN Dec(b.c \div Pow10(-1 - b.e), -1) ELSE b
    IN  Norm(Dec(Scale(a, MinE(a, cut)) - Scale(cut, MinE(a, cut)), MinE(a, cut)))

DecSub(a, b) == Norm(Dec(Scale(a, MinE(a, b)) - Scale(b, MinE(a, b)), MinE(a, b)))

DecMul(a, b) == Norm(Dec(a.c * b.c, a.e + b.e))

DecLt(a, b) == Scale(a, MinE(a, b)) < Scale(b, MinE(a, b))

DecLe(a, b) == Scale(a, MinE(a, b)) <= Scale(b, MinE(a, b))

DecEq(a, b) == Scale(a, MinE(a, b)) = Scale(b, MinE(a, b))

\* Decimal.quantize(Decimal('0.01')) under the default context (ROUND_HALF_EVEN)
Quantize2(d) ==
    IF d.e >= -2 THEN Dec(Scale(d, -2), -2)
    ELSE LET p  == Pow10(-2 - d.e)
             a  == IF d.c < 0 THEN -d.c ELSE d.c
             q  == a \div p
             r  == a % p
             up == (2 * r > p) \/ (2 * r = p /\ q % 2 = 1)
             m  == IF up THEN q + 1 ELSE q
         IN  Dec(IF d.c < 0 THEN -m ELSE m, -2)

Zero == Dec(0, -2)

\* no Decimal at all (a response field that is not set)
NoMoney == Dec(0, 1)

None == 0

(***************************************************************************)
(* Inputs of the requests.                                                 *)
(***************************************************************************)
\* account numbers: the three seeded accounts, two that are in no store, and
\* the one string the "pg" router's path pattern accepts
SixDigits == {"123456", "789012", "555444", "999999", "888888"}

PgPath == "\\dddddd"

\* amounts as the request body carries them
A001 == Dec(1, -2)

A100 == Dec(1000, -1)

A1000 == Dec(10000, -1)

A10000 == Dec(10000, 0)

\* 0, -0.01, 100.123, 0.001, 10000.01
InvalidAmounts ==
    {Dec(0, 0), Dec(-1, -2), Dec(100123, -3), Dec(1, -3), Dec(1000001, -2)}

BalanceRequests == {"123456", "555444", "999999"}

DepositRequests ==
    ({"123456", "555444", "999999"} \X {A100})
        \cup ({"123456"} \X ({A001, A10000} \cup InvalidAmounts))

WithdrawRequests ==
    ({"123456", "555444", "999999"} \X {A100})
        \cup ({"123456"} \X ({A1000} \cup InvalidAmounts))

TransferRequests ==
    {<<"123456", "789012", A100>>, <<"789012", "123456", A100>>,
     <<"123456", "123456", A100>>, <<"555444", "123456", A100>>,
     <<"999999", "123456", A100>>, <<"123456", "999999", A100>>,
     <<"999999", "888888", A100>>, <<"123456", "789012", A1000>>,
     <<"123456", "789012", Dec(100123, -3)>>, <<"123456", "789012", Dec(1000001, -2)>>}

\* principals of time deposits: 100.0, 100.2, 100000, then 0, 0.001, 100000.01
P100000 == Dec(100000, 0)

InvalidPrincipals == {Dec(0, 0), Dec(1, -3), Dec(10000001, -2)}

\* <<account, principal, duration_months, is_test_deposit>>
TimeDepositRequests ==
    {<<"123456", A100, 12, FALSE>>, <<"123456", A100, 12, TRUE>>,
     <<"555444", A100, 12, FALSE>>, <<"999999", A100, 12, FALSE>>,
     <<"123456", Dec(1002, -1), 12, FALSE>>,
     <<"123456", P100000, 12, FALSE>>, <<"123456", A100, 0, FALSE>>,
     <<"123456", A100, 61, FALSE>>}
        \cup {<<"123456", x, 12, FALSE>> : x \in InvalidPrincipals}

(***************************************************************************)
(* Request and response schemas (pydantic)                                 *)
(***************************************************************************)
\* Path(..., pattern=r"^\d{6}$") of the "test" and "mem" routers
PathPattern(account_number) == account_number \in SixDigits

\* Path(..., pattern=r"^\\d{6}$") of the "pg" router: in a raw string the two
\* backslashes are a literal backslash, followed by six letters d
PathPatternPg(account_number) == account_number = "\\dddddd"

\* validate_amount_precision: exponent < -2 is rejected
\* faulty variant of AmountPrecisionOk: the exponent is not looked at
AmountPrecisionAny(v) == TRUE

AmountPrecisionOk(v) == ~(v.e < -2)

\* Field(gt=0, le=10000) and validate_amount_precision
\* faulty variant of TransactionRequestValid: the limit of time deposits
TransactionRequestWide(v) ==
    /\ DecLt(Dec(0, 0), v)
    /\ DecLe(v, Dec(100000, 0))
    /\ v.e >= -2

TransactionRequestValid(v) ==
    /\ DecLt(Dec(0, 0), v)
    /\ DecLe(v, Dec(10000, 0))
    /\ AmountPrecisionOk(v)

\* the amount the handler receives: decimal_v.quantize(Decimal('0.01'))
validate_amount_precision(v) == Quantize2(v)

\* CreateTimeDepositRequest: amount Field(gt=0, le=100000), duration_months
\* Field(ge=1, le=60)
TimeDepositAmountValid(v) ==
    /\ DecLt(Dec(0, 0), v)
    /\ DecLe(v, Dec(100000, 0))
    /\ AmountPrecisionOk(v)

\* faulty variant of DurationValid: duration_months without its Field bounds
DurationAny(m) == TRUE

DurationValid(m) == m >= 1 /\ m <= 60

\* BalanceResponse: balance Field(ge=0)
BalanceResponseValid(balance) == DecLe(Zero, balance)

\* TransactionResponse: previous_balance, new_balance Field(ge=0),
\* transaction_amount Field(gt=0)
TransactionResponseValid(previous_balance, new_balance, amount) ==
    /\ DecLe(Zero, previous_balance)
    /\ DecLe(Zero, new_balance)
    /\ DecLt(Zero, amount)

\* TransferResponse: the fields without a default must all be given
TransferResponseRequired ==
    {"success", "message", "sender_account", "recipient_account",
     "sender_previous_balance", "sender_new_balance", "transfer_amount",
     "timestamp"}

TransferResponseValid(given, sender_previous_balance, sender_new_balance, amount) ==
    /\ TransferResponseRequired \subseteq given
    /\ DecLe(Zero, sender_previous_balance)
    /\ DecLe(Zero, sender_new_balance)
    /\ DecLt(Zero, amount)

(***************************************************************************)
(* The response of the last request.  status is one of                     *)
(*   "ok" (200), "ValidationError" (422, RequestValidationError),          *)
(*   "AccountNotFound" (404, names an account), "InsufficientFunds" (400,  *)
(*   carries balance and requested), "BadRequest" (400, HTTPException),    *)
(*   "ServerError" (500, any other exception)                              *)
(***************************************************************************)
Response(op, account_number, recipient, amount) ==
    [op |-> op, account |-> account_number, recipient |-> recipient,
     amount |-> amount, status |-> "ok", named |-> "",
     previous_balance |-> NoMoney, new_balance |-> NoMoney,
     balance |-> NoMoney, requested |-> NoMoney, last_transaction |-> None,
     detail |-> "", deposit_id |-> 0, duration_months |-> 0,
     interest_rate |-> NoMoney, force_mature |-> FALSE,
     transactions |-> <<>>, limit |-> 0, offset |-> 0,
     instance |-> None]

ValidationError(r) == [r EXCEPT !.status = "ValidationError"]

AccountNotFoundError(r, account_number) ==
    [r EXCEPT !.status = "AccountNotFound", !.named = account_number]

InsufficientFundsError(r, account_number, balance, amount) ==
    [r EXCEPT !.status = "InsufficientFunds", !.named = account_number,
              !.balance = balance, !.requested = amount]

\* detail is the text of the exception
ServerError(r, detail) == [r EXCEPT !.status = "ServerError", !.detail = detail]

BadRequest(r, detail) == [r EXCEPT !.status = "BadRequest", !.detail = detail]

\* BalanceResponse(account_number=..., balance=account.balance,
\* last_transaction=account.last_transaction)
\* faulty variant of BalanceResponse: the values of the account are not filled in
BalanceResponseUnset(r, account) == r

BalanceResponse(r, account) ==
    [r EXCEPT !.balance = account.balance,
              !.last_transaction = account.last_transaction]

\* faulty variant of TransactionResponse: previous_balance read after the write
TransactionResponseAliased(r, previous_balance, new_balance) ==
    [r EXCEPT !.previous_balance = new_balance, !.new_balance = new_balance]

TransactionResponse(r, previous_balance, new_balance) ==
    [r EXCEPT !.previous_balance = previous_balance, !.new_balance = new_balance]

\* the deposit a response reports, if it reports a successful one:
\* the account, the amount and the balance the deposit found
NoDeposit == [account |-> "", amount |-> NoMoney, balance |-> NoMoney]

Deposited(r, accounts_before) ==
    IF r.op = "deposit" /\ r.status = "ok"
    THEN [account |-> r.account, amount |-> r.amount,
          balance |-> accounts_before[r.account].balance]
    ELSE NoDeposit

\* the response of a request; before and deposits_before keep the accounts
\* and the time deposits the request found, earlier the deposit of the request
\* that came before it
Answer(r) ==
    /\ resp' = r
    /\ before' = accounts
    /\ deposits_before' = time_deposits
    /\ earlier' = Deposited(resp, before)
    /\ UNCHANGED <<impl, threads, horizon, process>>

\* a request that ends without touching the store
Reply(r) ==
    /\ Answer(r)
    /\ UNCHANGED <<accounts, time_deposits, journal, now>>

\* a request that wrote the accounts at time now + 1
ReplyStored(r, new_accounts) ==
    /\ now < horizon
    /\ Answer(r)
    /\ accounts' = new_accounts
    /\ now' = now + 1
    /\ UNCHANGED <<time_deposits, journal>>

(***************************************************************************)
(* The stores after construction                                           *)
(***************************************************************************)
Account(balance, last_transaction) ==
    [balance |-> balance, last_transaction |-> last_transaction]

\* TestDatabase._initialize_test_accounts, AccountDatabase.__init__,
\* seed_database: the same three accounts
SeedAccounts ==
    [a \in {"123456", "789012", "555444"} |->
        Account(CASE a = "123456" -> Dec(100000, -2)
                  [] a = "789012" -> Dec(50000, -2)
                  [] a = "555444" -> Dec(0, -2),
                None)]

\* a request thread: pc is the statement it stands before, the rest its locals;
\* of a database session, rows are the rows it has yet to update and holds the
\* rows whose lock it holds
Thread(pc, op, status, previous_balance, loaded, new_balance) ==
    [pc |-> pc, op |-> op, status |-> status, previous_balance |-> previous_balance,
     loaded |-> loaded, new_balance |-> new_balance,
     account |-> "", recipient |-> "", amount |-> NoMoney,
     rows |-> <<>>, holds |-> {}]

\* request.client.host of the requests
Clients == {"10.0.0.1", "10.0.0.2"}

IdleThreads ==
    [t \in 1..NThreads |-> Thread("idle", "none", "", NoMoney, NoMoney, NoMoney)]

InitStore(h) ==
    /\ impl \in {"test", "mem", "pg"}
    /\ accounts = SeedAccounts
    /\ time_deposits = <<>>
    /\ journal = <<>>
    /\ now = 0
    /\ resp = Response("none", "", "", NoMoney)
    /\ before = SeedAccounts
    /\ deposits_before = <<>>
    /\ earlier = NoDeposit
    /\ threads = IdleThreads
    /\ horizon = h
    /\ requests = [client_ip \in Clients |-> <<>>]
    /\ forwarded = [client_ip \in Clients |-> <<>>]
    /\ instance = (IF impl = "test" THEN 1 ELSE None)
    /\ initialized = (impl = "test")

Init == InitStore(MaxTime)

(***************************************************************************)
(* "test": backend/api/accounts.py over TestDatabase                       *)
(***************************************************************************)
get_balance_test(a) ==
    /\ impl = "test"
    /\ LET r == Response("get_balance", a, "", NoMoney) IN
       IF ~PathPattern(a) THEN Reply(ValidationError(r))
       ELSE IF a \notin DOMAIN accounts THEN Reply(AccountNotFoundError(r, a))
       ELSE IF ~BalanceResponseValid(accounts[a].balance)
            THEN Reply(AccountNotFoundError(r, a))
       ELSE Reply(BalanceResponse(r, accounts[a]))

\* TestDatabase.reset_test_data: an account that exists gets its balance and
\* last_transaction assigned, a missing one is created
\* faulty variant of reset_test_data: only missing accounts are created
reset_test_data_missing(accts) ==
    [n \in DOMAIN accts \cup DOMAIN SeedAccounts |->
        IF n \in DOMAIN accts THEN accts[n] ELSE SeedAccounts[n]]

reset_test_data(accts) ==
    [n \in DOMAIN accts \cup DOMAIN SeedAccounts |->
        IF n \notin DOMAIN SeedAccounts THEN accts[n]
        ELSE IF n \in DOMAIN accts
             THEN [accts[n] EXCEPT !.balance = SeedAccounts[n].balance,
                                   !.last_transaction = None]
             ELSE Account(SeedAccounts[n].balance, None)]

\* POST /accounts/test/reset
reset_test_database ==
    /\ impl = "test"
    /\ Answer(Response("reset", "", "", NoMoney))
    /\ accounts' = reset_test_data(accounts)
    /\ UNCHANGED <<time_deposits, journal, now>>

deposit_money_test(a, x) ==
    /\ impl = "test"
    /\ LET r == Response("deposit", a, "", x) IN
       IF ~PathPattern(a) \/ ~TransactionRequestValid(x)
       THEN Reply(ValidationError(r))
       ELSE IF a \notin DOMAIN accounts THEN Reply(AccountNotFoundError(r, a))
       ELSE LET amount == validate_amount_precision(x)
                previous_balance == accounts[a].balance
                new_balance == DecAdd(previous_balance, amount)
                stored == [accounts EXCEPT ![a] = Account(new_balance, now + 1)]
            IN  IF TransactionResponseValid(previous_balance, new_balance, amount)
                THEN ReplyStored(TransactionResponse(r, previous_balance, new_balance), stored)
                ELSE ReplyStored(AccountNotFoundError(r, a), stored)

withdraw_money_test(a, x) ==
    /\ impl = "test"
    /\ LET r == Response("withdraw", a, "", x) IN
       IF ~PathPattern(a) \/ ~TransactionRequestValid(x)
       THEN Reply(ValidationError(r))
       ELSE IF a \notin DOMAIN accounts THEN Reply(AccountNotFoundError(r, a))
       ELSE LET amount == validate_amount_precision(x)
                previous_balance == accounts[a].balance
                new_balance == DecSub(previous_balance, amount)
                stored == [accounts EXCEPT ![a] = Account(new_balance, now + 1)]
            IN  IF DecLt(previous_balance, amount)
                THEN Reply(InsufficientFundsError(r, a, previous_balance, amount))
                ELSE IF TransactionResponseValid(previous_balance, new_balance, amount)
                THEN ReplyStored(TransactionResponse(r, previous_balance, new_balance), stored)
                ELSE ReplyStored(AccountNotFoundError(r, a), stored)

\* sender and recipient are the stored objects themselves; for a = b they are
\* one object, debited and then credited.  The response is built without
\* sender_previous_balance, pydantic's ValidationError is a ValueError, and
\* the handler turns every ValueError into AccountNotFoundError(account_number)
transfer_money_test(a, b, x) ==
    /\ impl = "test"
    /\ LET r == Response("transfer", a, b, x) IN
       IF ~PathPattern(a) \/ ~PathPattern(b) \/ ~TransactionRequestValid(x)
       THEN Reply(ValidationError(r))
       ELSE IF a \notin DOMAIN accounts \/ b \notin DOMAIN accounts
       THEN Reply(AccountNotFoundError(r, a))
       ELSE LET amount == validate_amount_precision(x)
                debited == DecSub(accounts[a].balance, amount)
                after_debit == [accounts EXCEPT ![a] = Account(debited, now + 1)]
                credited == DecAdd(after_debit[b].balance, amount)
                stored == [after_debit EXCEPT ![b] = Account(credited, now + 1)]
                given == {"success", "message", "sender_account", "recipient_account",
                          "sender_new_balance", "recipient_new_balance",
                          "transfer_amount", "timestamp"}
            IN  IF DecLt(accounts[a].balance, amount)
                THEN Reply(InsufficientFundsError(r, a, accounts[a].balance, amount))
                ELSE IF TransferResponseValid(given, NoMoney, stored[a].balance, amount)
                THEN ReplyStored([r EXCEPT !.new_balance = stored[a].balance], stored)
                ELSE ReplyStored(AccountNotFoundError(r, a), stored)

\* POST /time-deposits/ takes the account in the body.  The handler reads
\* request.account_number, which CreateTimeDepositRequest does not have (the
\* model drops the field): AttributeError, not a ValueError, so a server error
create_time_deposit_test(a, x, m) ==
    /\ impl = "test"
    /\ LET r == [Response("create_time_deposit", a, "", x) EXCEPT !.duration_months = m] IN
       IF ~TimeDepositAmountValid(x) \/ ~DurationValid(m)
       THEN Reply(ValidationError(r))
       ELSE Reply(ServerError(r, "AttributeError"))

(***************************************************************************)
(* "mem": legacy/routers/accounts.py over AccountDatabase                  *)
(***************************************************************************)
\* a request that wrote accounts and time deposits at time now + 1
ReplyStoredDeposits(r, new_accounts, new_deposits) ==
    /\ now < horizon
    /\ Answer(r)
    /\ accounts' = new_accounts
    /\ time_deposits' = new_deposits
    /\ now' = now + 1
    /\ UNCHANGED journal

get_balance_mem(a) ==
    /\ impl = "mem"
    /\ LET r == Response("get_balance", a, "", NoMoney) IN
       IF ~PathPattern(a) THEN Reply(ValidationError(r))
       ELSE IF a \notin DOMAIN accounts THEN Reply(AccountNotFoundError(r, a))
       ELSE IF ~BalanceResponseValid(accounts[a].balance)
            THEN Reply(AccountNotFoundError(r, a))
       ELSE Reply(BalanceResponse(r, accounts[a]))

deposit_money_mem(a, x) ==
    /\ impl = "mem"
    /\ LET r == Response("deposit", a, "", x) IN
       IF ~PathPattern(a) \/ ~TransactionRequestValid(x)
       THEN Reply(ValidationError(r))
       ELSE IF a \notin DOMAIN accounts THEN Reply(AccountNotFoundError(r, a))
       ELSE LET amount == validate_amount_precision(x)
                previous_balance == accounts[a].balance
                new_balance == DecAdd(previous_balance, amount)
                stored == [accounts EXCEPT ![a] = Account(new_balance, now + 1)]
            IN  IF TransactionResponseValid(previous_balance, new_balance, amount)
                THEN ReplyStored(TransactionResponse(r, previous_balance, new_balance), stored)
                ELSE ReplyStored(AccountNotFoundError(r, a), stored)

withdraw_money_mem(a, x) ==
    /\ impl = "mem"
    /\ LET r == Response("withdraw", a, "", x) IN
       IF ~PathPattern(a) \/ ~TransactionRequestValid(x)
       THEN Reply(ValidationError(r))
       ELSE IF a \notin DOMAIN accounts THEN Reply(AccountNotFoundError(r, a))
       ELSE LET amount == validate_amount_precision(x)
                previous_balance == accounts[a].balance
                new_balance == DecSub(previous_balance, amount)
                stored == [accounts EXCEPT ![a] = Account(new_balance, now + 1)]
            IN  IF DecLt(previous_balance, amount)
                THEN Reply(InsufficientFundsError(r, a, previous_balance, amount))
                ELSE IF TransactionResponseValid(previous_balance, new_balance, amount)
                THEN ReplyStored(TransactionResponse(r, previous_balance, new_balance), stored)
                ELSE ReplyStored(AccountNotFoundError(r, a), stored)

\* faulty variant of transfer_money: the recipient is never credited
transfer_money_no_credit(accts, sender_account, recipient_account, amount, t) ==
    [accts EXCEPT ![sender_account] =
        Account(DecSub(accts[sender_account].balance, amount), t)]

\* faulty variant of transfer_money: the credit goes to every account but the
\* sender
transfer_money_every_recipient(accts, sender_account, recipient_account, amount, t) ==
    [n \in DOMAIN accts |->
        IF n = sender_account THEN Account(DecSub(accts[n].balance, amount), t)
        ELSE Account(DecAdd(accts[n].balance, amount), t)]

\* AccountDatabase.transfer_money: the accounts after the transfer
transfer_money(accts, sender_account, recipient_account, amount, t) ==
    LET debited == DecSub(accts[sender_account].balance, amount)
        after_debit == [accts EXCEPT ![sender_account] = Account(debited, t)]
        credited == DecAdd(after_debit[recipient_account].balance, amount)
    IN  [after_debit EXCEPT ![recipient_account] = Account(credited, t)]

transfer_money_mem(a, b, x) ==
    /\ impl = "mem"
    /\ LET r == Response("transfer", a, b, x) IN
       IF ~PathPattern(a) \/ ~PathPattern(b) \/ ~TransactionRequestValid(x)
       THEN Reply(ValidationError(r))
       ELSE IF a = b
       THEN Reply(ServerError(r, "Cannot transfer money to the same account"))
       ELSE IF a \notin DOMAIN accounts THEN Reply(AccountNotFoundError(r, a))
       ELSE IF b \notin DOMAIN accounts THEN Reply(AccountNotFoundError(r, b))
       ELSE LET amount == validate_amount_precision(x)
                stored == transfer_money(accounts, a, b, amount, now + 1)
                given == {"success", "message", "sender_account", "recipient_account",
                          "sender_previous_balance", "sender_new_balance",
                          "transfer_amount", "transfer_message", "timestamp"}
                sender_previous_balance == DecAdd(stored[a].balance, amount)
            IN  IF DecLt(accounts[a].balance, amount)
                THEN Reply(InsufficientFundsError(r, a, accounts[a].balance, amount))
                ELSE IF TransferResponseValid(given, sender_previous_balance,
                                              stored[a].balance, amount)
                THEN ReplyStored([r EXCEPT !.previous_balance = sender_previous_balance,
                                           !.new_balance = stored[a].balance], stored)
                ELSE ReplyStored(ServerError(r, "ValidationError"), stored)

\* self.interest_rates, annual rates by duration tier
interest_rates ==
    [d \in {1, 3, 6, 12, 24, 36, 48, 60} |->
        CASE d = 1 -> Dec(1, -2) [] d = 3 -> Dec(15, -3) [] d = 6 -> Dec(2, -2)
          [] d = 12 -> Dec(25, -3) [] d = 24 -> Dec(3, -2) [] d = 36 -> Dec(35, -3)
          [] d = 48 -> Dec(4, -2) [] d = 60 -> Dec(45, -3)]

\* faulty variant of get_interest_rate: the last tier not above the duration
get_interest_rate_below(duration_months) ==
    LET fits == {d \in DOMAIN interest_rates : d <= duration_months}
        last == CHOOSE d \in fits : \A o \in fits : o <= d
    IN  IF fits # {} THEN interest_rates[last] ELSE interest_rates[1]

\* the first tier, in ascending order, with duration_months <= tier, else the
\* highest tier
get_interest_rate(duration_months) ==
    LET fits == {d \in DOMAIN interest_rates : duration_months <= d}
        least == CHOOSE d \in fits : \A o \in fits : d <= o
        highest == CHOOSE d \in DOMAIN interest_rates : \A o \in DOMAIN interest_rates : o <= d
    IN  IF fits # {} THEN interest_rates[least] ELSE interest_rates[highest]

\* timedelta(days=duration_months * 30) and timedelta(seconds=1), in seconds
SecondsPerDay == 86400

maturity_date(created_at, duration_months, is_test_deposit) ==
    IF is_test_deposit THEN created_at + 1
    ELSE created_at + duration_months * 30 * SecondsPerDay

\* faulty variant of TimeDeposit: the deposit is stored as matured already
TimeDepositMatured(deposit_id, account_number, amount, duration_months, created_at, is_test) ==
    [deposit_id |-> deposit_id, account_number |-> account_number,
     amount |-> amount, duration_months |-> duration_months,
     interest_rate |-> get_interest_rate(duration_months),
     created_at |-> created_at,
     maturity_date |-> maturity_date(created_at, duration_months, is_test),
     is_matured |-> TRUE, final_amount |-> NoMoney]

TimeDeposit(deposit_id, account_number, amount, duration_months, created_at, is_test) ==
    [deposit_id |-> deposit_id, account_number |-> account_number,
     amount |-> amount, duration_months |-> duration_months,
     interest_rate |-> get_interest_rate(duration_months),
     created_at |-> created_at,
     maturity_date |-> maturity_date(created_at, duration_months, is_test),
     is_matured |-> FALSE, final_amount |-> NoMoney]

\* Decimal(str(duration_months / 12)): a float division.  A multiple of three
\* months is a multiple of 0.25 years, which the float and its str hold exactly
years(duration_months) == Dec(25 * (duration_months \div 3), -2)

\* deposit.amount + deposit.amount * deposit.interest_rate * Decimal(str(years))
final_amount(deposit) ==
    DecAdd(deposit.amount,
           DecMul(DecMul(deposit.amount, deposit.interest_rate),
                  years(deposit.duration_months)))

\* uuid4: an identifier no deposit has yet
NewDepositId == Len(time_deposits) + 1

create_time_deposit_mem(a, x, m, is_test) ==
    /\ impl = "mem"
    /\ LET r == [Response("create_time_deposit", a, "", x) EXCEPT !.duration_months = m] IN
       IF ~PathPattern(a) \/ ~TimeDepositAmountValid(x) \/ ~DurationValid(m)
       THEN Reply(ValidationError(r))
       ELSE IF a \notin DOMAIN accounts THEN Reply(AccountNotFoundError(r, a))
       ELSE LET amount == validate_amount_precision(x)
                stored == [accounts EXCEPT ![a] =
                              Account(DecSub(accounts[a].balance, amount), now + 1)]
                deposit == TimeDeposit(NewDepositId, a, amount, m, now + 1, is_test)
            IN  IF DecLt(accounts[a].balance, amount)
                THEN Reply(InsufficientFundsError(r, a, accounts[a].balance, amount))
                ELSE ReplyStoredDeposits([r EXCEPT !.new_balance = stored[a].balance,
                                                   !.deposit_id = deposit.deposit_id,
                                                   !.interest_rate = deposit.interest_rate],
                                         stored, Append(time_deposits, deposit))

\* faulty variant of already_matured: the flag is not looked at
never_matured(deposit) == FALSE

\* if deposit.is_matured: raise ValueError(... is already matured)
already_matured(deposit) == deposit.is_matured

\* elapsed: the seconds (0 or 1) since the last recorded time
mature_time_deposit_mem(deposit_id, force_mature, elapsed) ==
    /\ impl = "mem"
    /\ LET r == [Response("mature_time_deposit", "", "", NoMoney)
                   EXCEPT !.deposit_id = deposit_id, !.force_mature = force_mature] IN
       IF deposit_id \notin DOMAIN time_deposits
       THEN Reply(ServerError(r, "not found"))
       ELSE LET deposit == time_deposits[deposit_id]
                a == deposit.account_number
                final == final_amount(deposit)
                stored == [accounts EXCEPT ![a] =
                              Account(DecAdd(accounts[a].balance, final), now + 1)]
            IN  IF already_matured(deposit)
                THEN Reply(ServerError(r, "is already matured"))
                ELSE IF ~force_mature /\ now + elapsed < deposit.maturity_date
                THEN Reply(ServerError(r, "has not reached maturity date"))
                ELSE ReplyStoredDeposits(
                        [r EXCEPT !.account = a, !.amount = final,
                                  !.new_balance = stored[a].balance],
                        stored,
                        [time_deposits EXCEPT ![deposit_id].is_matured = TRUE])

(***************************************************************************)
(* "pg": the relational store.  PostgreSQLAccountDatabase and              *)
(* DatabaseInterface are the operations of the data layer; the handlers of *)
(* legacy/routers/accounts_pg.py call them behind the path validation.     *)
(***************************************************************************)
\* a DECIMAL(15, 2) column: numeric rounds to the scale, ties away from zero
Numeric2(d) ==
    IF d.e >= -2 THEN Dec(Scale(d, -2), -2)
    ELSE LET p == Pow10(-2 - d.e)
             a == IF d.c < 0 THEN -d.c ELSE d.c
             m == IF 2 * (a % p) >= p THEN (a \div p) + 1 ELSE a \div p
         IN  Dec(IF d.c < 0 THEN -m ELSE m, -2)

TransactionModel(account_number, transaction_type, amount, balance_before, balance_after, timestamp, reference_id) ==
    [account_number |-> account_number, transaction_type |-> transaction_type,
     amount |-> Numeric2(amount), balance_before |-> Numeric2(balance_before),
     balance_after |-> Numeric2(balance_after), timestamp |-> timestamp,
     reference_id |-> reference_id]

\* a request that committed accounts, time deposits and transactions
Commit(r, new_accounts, new_deposits, new_journal) ==
    /\ now < horizon
    /\ Answer(r)
    /\ accounts' = new_accounts
    /\ time_deposits' = new_deposits
    /\ journal' = new_journal
    /\ now' = now + 1

\* faulty variant of update_account_balance: the transaction row is written,
\* the balance of the account row is not
update_account_balance_unwritten(accts, jrnl, account_number, new_balance, transaction_type, amount, t) ==
    [accounts |-> [accts EXCEPT ![account_number].last_transaction = t],
     journal |-> Append(jrnl, TransactionModel(account_number, transaction_type, amount,
                                               accts[account_number].balance,
                                               new_balance, t, 0))]

\* PostgreSQLAccountDatabase.update_account_balance: the account row and the
\* transaction row of one commit
update_account_balance(accts, jrnl, account_number, new_balance, transaction_type, amount, t) ==
    [accounts |-> [accts EXCEPT ![account_number] = Account(Numeric2(new_balance), t)],
     journal |-> Append(jrnl, TransactionModel(account_number, transaction_type, amount,
                                               accts[account_number].balance,
                                               new_balance, t, 0))]

\* faulty variant of create_account: no check for an existing account
pg_create_account_overwrite(a, initial_balance) ==
    /\ impl = "pg"
    /\ Commit([Response("create_account", a, "", initial_balance)
                 EXCEPT !.new_balance = Numeric2(initial_balance)],
              [n \in DOMAIN accounts \cup {a} |->
                  IF n = a THEN Account(Numeric2(initial_balance), None)
                  ELSE accounts[n]],
              time_deposits, journal)

\* PostgreSQLAccountDatabase.create_account
pg_create_account(a, initial_balance) ==
    /\ impl = "pg"
    /\ LET r == Response("create_account", a, "", initial_balance) IN
       IF a \in DOMAIN accounts
       THEN Reply(BadRequest(r, "already exists"))
       ELSE Commit([r EXCEPT !.new_balance = Numeric2(initial_balance)],
                   [n \in DOMAIN accounts \cup {a} |->
                       IF n = a THEN Account(Numeric2(initial_balance), None)
                       ELSE accounts[n]],
                   time_deposits, journal)

\* DatabaseInterface.get_account
DatabaseInterface_get_account(a) ==
    /\ impl = "pg"
    /\ LET r == Response("get_balance", a, "", NoMoney) IN
       IF a \notin DOMAIN accounts THEN Reply(AccountNotFoundError(r, a))
       ELSE Reply(BalanceResponse(r, accounts[a]))

\* DatabaseInterface.deposit
DatabaseInterface_deposit(a, amount) ==
    /\ impl = "pg"
    /\ LET r == Response("deposit", a, "", amount) IN
       IF a \notin DOMAIN accounts THEN Reply(AccountNotFoundError(r, a))
       ELSE LET previous_balance == accounts[a].balance
                new_balance == DecAdd(previous_balance, amount)
                u == update_account_balance(accounts, journal, a, new_balance,
                                            "deposit", amount, now + 1)
            IN  Commit(TransactionResponse(r, previous_balance, new_balance),
                       u.accounts, time_deposits, u.journal)

\* DatabaseInterface.withdraw
DatabaseInterface_withdraw(a, amount) ==
    /\ impl = "pg"
    /\ LET r == Response("withdraw", a, "", amount) IN
       IF a \notin DOMAIN accounts THEN Reply(AccountNotFoundError(r, a))
       ELSE LET previous_balance == accounts[a].balance
                new_balance == DecSub(previous_balance, amount)
                u == update_account_balance(accounts, journal, a, new_balance,
                                            "withdrawal", amount, now + 1)
            IN  IF DecLt(previous_balance, amount)
                THEN Reply(InsufficientFundsError(r, a, previous_balance, amount))
                ELSE Commit(TransactionResponse(r, previous_balance, new_balance),
                            u.accounts, time_deposits, u.journal)

\* uuid4 of a transfer: an identifier no earlier transaction carries
NewReferenceId == Len(journal) + 1

\* PostgreSQLAccountDatabase.transfer_money after its checks: sender and
\* recipient are the session's row objects (one object when they are the same
\* account); both rows and both transaction rows go into one commit
pg_transfer(accts, jrnl, sender_account, recipient_account, amount, t, reference_id) ==
    LET new_sender_balance == DecSub(accts[sender_account].balance, amount)
        after_debit == [accts EXCEPT ![sender_account] = Account(new_sender_balance, t)]
        new_recipient_balance == DecAdd(after_debit[recipient_account].balance, amount)
        after_credit == [after_debit EXCEPT ![recipient_account] =
                            Account(new_recipient_balance, t)]
        sender_transaction ==
            TransactionModel(sender_account, "transfer_out", amount,
                             DecAdd(after_credit[sender_account].balance, amount),
                             new_sender_balance, t, reference_id)
        recipient_transaction ==
            TransactionModel(recipient_account, "transfer_in", amount,
                             DecSub(after_credit[recipient_account].balance, amount),
                             new_recipient_balance, t, reference_id)
    IN  [accounts |-> [n \in DOMAIN accts |->
                          Account(Numeric2(after_credit[n].balance),
                                  after_credit[n].last_transaction)],
         journal |-> jrnl \o <<sender_transaction, recipient_transaction>>]

\* PostgreSQLAccountDatabase.transfer_money
pg_transfer_money(a, b, amount) ==
    /\ impl = "pg"
    /\ LET r == Response("transfer", a, b, amount) IN
       IF a \notin DOMAIN accounts THEN Reply(AccountNotFoundError(r, a))
       ELSE IF b \notin DOMAIN accounts THEN Reply(AccountNotFoundError(r, b))
       ELSE IF DecLt(accounts[a].balance, amount)
       THEN Reply([r EXCEPT !.status = "InsufficientFunds", !.named = a])
       ELSE LET u == pg_transfer(accounts, journal, a, b, amount, now + 1, NewReferenceId)
            IN  Commit([r EXCEPT !.new_balance = u.accounts[a].balance],
                       u.accounts, time_deposits, u.journal)

\* PostgreSQLAccountDatabase.create_time_deposit
pg_create_time_deposit(a, amount, m) ==
    /\ impl = "pg"
    /\ LET r == [Response("create_time_deposit", a, "", amount) EXCEPT !.duration_months = m] IN
       IF a \notin DOMAIN accounts THEN Reply(AccountNotFoundError(r, a))
       ELSE IF DecLt(accounts[a].balance, amount)
       THEN Reply([r EXCEPT !.status = "InsufficientFunds", !.named = a])
       ELSE LET u == update_account_balance(accounts, journal, a,
                                            DecSub(accounts[a].balance, amount),
                                            "time_deposit", amount, now + 1)
                deposit == TimeDeposit(NewDepositId, a, Numeric2(amount), m, now + 1, FALSE)
            IN  Commit([r EXCEPT !.new_balance = u.accounts[a].balance,
                                 !.deposit_id = deposit.deposit_id,
                                 !.interest_rate = deposit.interest_rate],
                       u.accounts, Append(time_deposits, deposit), u.journal)

\* PostgreSQLAccountDatabase.mature_time_deposit through the handler
\* mature_time_deposit of the router, whose path has no pattern
mature_time_deposit_pg(deposit_id) ==
    /\ impl = "pg"
    /\ LET r == [Response("mature_time_deposit", "", "", NoMoney)
                   EXCEPT !.deposit_id = deposit_id] IN
       IF deposit_id \notin DOMAIN time_deposits
       THEN Reply(BadRequest(r, "not found"))
       ELSE LET deposit == time_deposits[deposit_id]
                a == deposit.account_number
                final == final_amount(deposit)
                u == update_account_balance(accounts, journal, a,
                                            DecAdd(accounts[a].balance, final),
                                            "time_deposit_maturity", final, now + 1)
            IN  IF already_matured(deposit)
                THEN Reply(BadRequest(r, "is already matured"))
                ELSE Commit([r EXCEPT !.account = a, !.amount = Numeric2(final),
                                      !.new_balance = u.accounts[a].balance],
                            u.accounts,
                            [time_deposits EXCEPT ![deposit_id].is_matured = TRUE,
                                                  ![deposit_id].final_amount = Numeric2(final)],
                            u.journal)

(***************************************************************************)
(* The handlers of legacy/routers/accounts_pg.py.  Every account path      *)
(* carries PathPatternPg; AccountNotFoundError and InsufficientFundsError  *)
(* are raised without their required arguments, which is a TypeError.      *)
(***************************************************************************)
get_balance_pg(a) ==
    /\ impl = "pg"
    /\ LET r == Response("get_balance", a, "", NoMoney) IN
       IF ~PathPatternPg(a) THEN Reply(ValidationError(r))
       ELSE IF a \notin DOMAIN accounts THEN Reply(ServerError(r, "TypeError"))
       ELSE IF ~BalanceResponseValid(accounts[a].balance)
       THEN Reply(ServerError(r, "TypeError"))
       ELSE Reply(BalanceResponse(r, accounts[a]))

\* account is the session's row object, so account.balance read after
\* update_account_balance is the balance just stored
withdraw_money_pg(a, x) ==
    /\ impl = "pg"
    /\ LET r == Response("withdraw", a, "", x) IN
       IF ~PathPatternPg(a) \/ ~TransactionRequestValid(x) THEN Reply(ValidationError(r))
       ELSE IF a \notin DOMAIN accounts THEN Reply(ServerError(r, "TypeError"))
       ELSE LET amount == validate_amount_precision(x)
                new_balance == DecSub(accounts[a].balance, amount)
                u == update_account_balance(accounts, journal, a, new_balance,
                                            "withdrawal", amount, now + 1)
                stored == u.accounts[a].balance
            IN  IF DecLt(accounts[a].balance, amount)
                THEN Reply(ServerError(r, "TypeError"))
                ELSE IF ~TransactionResponseValid(stored, stored, amount)
                THEN Commit(ServerError(r, "TypeError"), u.accounts, time_deposits, u.journal)
                ELSE Commit(TransactionResponse(r, stored, stored),
                            u.accounts, time_deposits, u.journal)

deposit_money_pg(a, x) ==
    /\ impl = "pg"
    /\ LET r == Response("deposit", a, "", x) IN
       IF ~PathPatternPg(a) \/ ~TransactionRequestValid(x) THEN Reply(ValidationError(r))
       ELSE IF a \notin DOMAIN accounts THEN Reply(ServerError(r, "TypeError"))
       ELSE LET amount == validate_amount_precision(x)
                new_balance == DecAdd(accounts[a].balance, amount)
                u == update_account_balance(accounts, journal, a, new_balance,
                                            "deposit", amount, now + 1)
                stored == u.accounts[a].balance
            IN  IF ~TransactionResponseValid(stored, stored, amount)
                THEN Commit(ServerError(r, "TypeError"), u.accounts, time_deposits, u.journal)
                ELSE Commit(TransactionResponse(r, stored, stored),
                            u.accounts, time_deposits, u.journal)

\* the fields the handler passes to TransferResponse
TransferResponseGivenPg ==
    {"success", "message", "sender_account", "recipient_account", "amount",
     "sender_new_balance", "recipient_new_balance", "timestamp"}

transfer_money_pg(a, b, x) ==
    /\ impl = "pg"
    /\ LET r == Response("transfer", a, b, x) IN
       IF ~PathPatternPg(a) \/ ~PathPattern(b) \/ ~TransactionRequestValid(x)
       THEN Reply(ValidationError(r))
       ELSE IF b \notin DOMAIN accounts THEN Reply(ServerError(r, "Transfer failed: TypeError"))
       ELSE IF a \notin DOMAIN accounts THEN Reply(ServerError(r, "TypeError"))
       ELSE LET amount == validate_amount_precision(x)
                u == pg_transfer(accounts, journal, a, b, amount, now + 1, NewReferenceId)
            IN  IF DecLt(accounts[a].balance, amount)
                THEN Reply(ServerError(r, "TypeError"))
                ELSE IF ~TransferResponseValid(TransferResponseGivenPg, NoMoney,
                                               u.accounts[a].balance, amount)
                THEN Commit(BadRequest(r, "validation errors for TransferResponse"),
                            u.accounts, time_deposits, u.journal)
                ELSE Commit([r EXCEPT !.new_balance = u.accounts[a].balance],
                            u.accounts, time_deposits, u.journal)

create_time_deposit_pg(a, x, m) ==
    /\ impl = "pg"
    /\ LET r == [Response("create_time_deposit", a, "", x) EXCEPT !.duration_months = m] IN
       IF ~PathPatternPg(a) \/ ~TimeDepositAmountValid(x) \/ ~DurationValid(m)
       THEN Reply(ValidationError(r))
       ELSE IF a \notin DOMAIN accounts THEN Reply(ServerError(r, "TypeError"))
       ELSE LET amount == validate_amount_precision(x)
                u == update_account_balance(accounts, journal, a,
                                            DecSub(accounts[a].balance, amount),
                                            "time_deposit", amount, now + 1)
                deposit == TimeDeposit(NewDepositId, a, Numeric2(amount), m, now + 1, FALSE)
            IN  IF DecLt(accounts[a].balance, amount)
                THEN Reply(ServerError(r, "TypeError"))
                ELSE Commit([r EXCEPT !.new_balance = u.accounts[a].balance,
                                      !.deposit_id = deposit.deposit_id,
                                      !.interest_rate = deposit.interest_rate],
                            u.accounts, Append(time_deposits, deposit), u.journal)

\* initial_balance is an unconstrained float query parameter; account_number
\* is a String(6) column, which the path pattern's seven characters overflow
create_account_pg(a, initial_balance) ==
    /\ impl = "pg"
    /\ LET r == Response("create_account", a, "", initial_balance) IN
       IF ~PathPatternPg(a) THEN Reply(ValidationError(r))
       ELSE IF a \in DOMAIN accounts THEN Reply(BadRequest(r, "already exists"))
       ELSE Reply(ServerError(r, "Account creation failed: value too long"))

(***************************************************************************)
(* Requests of the "pg" layer.                                             *)
(***************************************************************************)
\* requests to the router: two six-digit accounts, and the account the
\* pattern accepts with 100.0 and with 100.123
PgRouterRequests ==
    {<<"123456", A100>>, <<"999999", A100>>, <<PgPath, A100>>, <<PgPath, Dec(100123, -3)>>}

\* initial_balance: 50.0 and -50.0
InitialBalances == {Dec(500, -1), Dec(-500, -1)}

\* calls of the data layer, with amounts the request models have validated
PgAmounts == {A100, A1000}

PgAccounts == {"123456", "999999"}

PgTransfers ==
    {<<"123456", "789012", A100>>, <<"123456", "123456", A100>>,
     <<"999999", "123456", A100>>, <<"123456", "999999", A100>>,
     <<"123456", "789012", A1000>>}

DepositIds == {1, 2}

NextTest ==
    \/ \E a \in BalanceRequests : get_balance_test(a)
    \/ \E q \in DepositRequests : deposit_money_test(q[1], q[2])
    \/ \E q \in WithdrawRequests : withdraw_money_test(q[1], q[2])
    \/ \E q \in TransferRequests : transfer_money_test(q[1], q[2], q[3])
    \/ \E q \in TimeDepositRequests : create_time_deposit_test(q[1], q[2], q[3])
    \/ reset_test_database

NextMem ==
    \/ \E a \in BalanceRequests : get_balance_mem(a)
    \/ \E q \in DepositRequests : deposit_money_mem(q[1], q[2])
    \/ \E q \in WithdrawRequests : withdraw_money_mem(q[1], q[2])
    \/ \E q \in TransferRequests : transfer_money_mem(q[1], q[2], q[3])
    \/ \E q \in TimeDepositRequests : create_time_deposit_mem(q[1], q[2], q[3], q[4])
    \/ \E d \in DepositIds, q \in {<<TRUE, 0>>, <<FALSE, 0>>, <<FALSE, 1>>} :
           mature_time_deposit_mem(d, q[1], q[2])

NextPg ==
    \/ \E q \in PgRouterRequests : get_balance_pg(q[1])
    \/ \E q \in PgRouterRequests : deposit_money_pg(q[1], q[2])
    \/ \E q \in PgRouterRequests : withdraw_money_pg(q[1], q[2])
    \/ \E q \in PgRouterRequests : transfer_money_pg(q[1], "789012", q[2])
    \/ \E q \in PgRouterRequests, m \in {12, 61} : create_time_deposit_pg(q[1], q[2], m)
    \/ \E q \in PgRouterRequests : create_account_pg(q[1], Dec(-500, -1))
    \/ \E a \in PgAccounts : DatabaseInterface_get_account(a)
    \/ \E a \in PgAccounts, x \in PgAmounts : DatabaseInterface_deposit(a, x)
    \/ \E a \in PgAccounts, x \in PgAmounts : DatabaseInterface_withdraw(a, x)
    \/ \E a \in {"123456", "999999"}, b \in InitialBalances : pg_create_account(a, b)
    \/ \E q \in PgTransfers : pg_transfer_money(q[1], q[2], q[3])
    \/ \E a \in PgAccounts, x \in {A100, Dec(10020, -2)} : pg_create_time_deposit(a, x, 12)
    \/ \E d \in DepositIds : mature_time_deposit_pg(d)

Next == NextTest \/ NextMem \/ NextPg

Spec == Init /\ [][Next]_vars

(***************************************************************************)
(* Requests in threads.  tests/test_security.py posts withdrawals from     *)
(* threading.Thread objects through one TestClient; each request runs the  *)
(* handler of backend/api/accounts.py on the shared TestDatabase, which    *)
(* holds no lock.  account is the stored object itself, so every read and  *)
(* write of account.balance is a step other threads can interleave with.   *)
(* The handlers of legacy/routers/accounts.py over AccountDatabase execute *)
(* the same statements (transfer_money of legacy/database.py for a         *)
(* transfer) and differ in the answer of a transfer.                       *)
(***************************************************************************)
ThreadAccount == "123456"

ThreadRecipient == "789012"

ThreadAmount == A100

\* the amounts of concurrent withdrawals: 100.00, and 600.00 of which two
\* exceed the balance of 1000.00 together
ThreadAmounts == {A100, Dec(6000, -1)}

\* sender and recipient of concurrent transfers
ThreadTransfers == {<<ThreadAccount, ThreadRecipient>>, <<ThreadRecipient, ThreadAccount>>}

ThreadStep(t, new_thread) ==
    /\ impl \in {"test", "mem"}
    /\ threads' = [threads EXCEPT ![t] = new_thread]
    /\ UNCHANGED <<impl, accounts, time_deposits, journal, now, resp, before,
                    deposits_before, earlier, horizon, process>>

ThreadStore(t, new_thread, account_number, balance) ==
    /\ impl \in {"test", "mem"}
    /\ threads' = [threads EXCEPT ![t] = new_thread]
    /\ accounts' = [accounts EXCEPT ![account_number].balance = balance]
    /\ UNCHANGED <<impl, time_deposits, journal, now, resp, before, deposits_before,
                    earlier, horizon, process>>

\* client.post("/accounts/123456/withdraw", json={"amount": 100.0}), or 600.0
withdraw_start(t) ==
    /\ threads[t].pc = "idle"
    /\ \E x \in ThreadAmounts :
          ThreadStep(t, [threads[t] EXCEPT !.pc = "withdraw_check", !.op = "withdraw",
                            !.account = ThreadAccount, !.amount = x])

\* if account.balance < request.amount: raise InsufficientFundsError(...)
withdraw_check(t) ==
    /\ threads[t].pc = "withdraw_check"
    /\ IF DecLt(accounts[threads[t].account].balance, threads[t].amount)
       THEN ThreadStep(t, [threads[t] EXCEPT !.pc = "done", !.status = "InsufficientFunds"])
       ELSE ThreadStep(t, [threads[t] EXCEPT !.pc = "withdraw_previous"])

\* previous_balance = account.balance
withdraw_previous(t) ==
    /\ threads[t].pc = "withdraw_previous"
    /\ ThreadStep(t, [threads[t] EXCEPT !.pc = "withdraw_load",
                         !.previous_balance = accounts[threads[t].account].balance])

\* account.balance -= request.amount: the read
withdraw_load(t) ==
    /\ threads[t].pc = "withdraw_load"
    /\ ThreadStep(t, [threads[t] EXCEPT !.pc = "withdraw_store",
                         !.loaded = accounts[threads[t].account].balance])

\* account.balance -= request.amount: the write
withdraw_store(t) ==
    /\ threads[t].pc = "withdraw_store"
    /\ ThreadStore(t, [threads[t] EXCEPT !.pc = "withdraw_reply"], threads[t].account,
                   DecSub(threads[t].loaded, threads[t].amount))

\* TransactionResponse(previous_balance=previous_balance,
\* new_balance=account.balance, ...); its ValidationError is a ValueError
withdraw_reply(t) ==
    /\ threads[t].pc = "withdraw_reply"
    /\ LET new_balance == accounts[threads[t].account].balance IN
       IF TransactionResponseValid(threads[t].previous_balance, new_balance, threads[t].amount)
       THEN ThreadStep(t, [threads[t] EXCEPT !.pc = "done", !.status = "ok",
                              !.new_balance = new_balance])
       ELSE ThreadStep(t, [threads[t] EXCEPT !.pc = "done", !.status = "AccountNotFound"])

\* client.post("/accounts/123456/transfer", ...) to 789012, or the other way
transfer_start(t) ==
    /\ threads[t].pc = "idle"
    /\ \E q \in ThreadTransfers :
          ThreadStep(t, [threads[t] EXCEPT !.pc = "transfer_check", !.op = "transfer",
                            !.account = q[1], !.recipient = q[2],
                            !.amount = ThreadAmount])

\* if sender.balance < request.amount: raise InsufficientFundsError(...)
transfer_check(t) ==
    /\ threads[t].pc = "transfer_check"
    /\ IF DecLt(accounts[threads[t].account].balance, threads[t].amount)
       THEN ThreadStep(t, [threads[t] EXCEPT !.pc = "done", !.status = "InsufficientFunds"])
       ELSE ThreadStep(t, [threads[t] EXCEPT !.pc = "transfer_debit_load"])

\* sender.balance -= request.amount
transfer_debit_load(t) ==
    /\ threads[t].pc = "transfer_debit_load"
    /\ ThreadStep(t, [threads[t] EXCEPT !.pc = "transfer_debit_store",
                         !.loaded = accounts[threads[t].account].balance])

transfer_debit_store(t) ==
    /\ threads[t].pc = "transfer_debit_store"
    /\ ThreadStore(t, [threads[t] EXCEPT !.pc = "transfer_credit_load"], threads[t].account,
                   DecSub(threads[t].loaded, threads[t].amount))

\* recipient.balance += request.amount
transfer_credit_load(t) ==
    /\ threads[t].pc = "transfer_credit_load"
    /\ ThreadStep(t, [threads[t] EXCEPT !.pc = "transfer_credit_store",
                         !.loaded = accounts[threads[t].recipient].balance])

transfer_credit_store(t) ==
    /\ threads[t].pc = "transfer_credit_store"
    /\ ThreadStore(t, [threads[t] EXCEPT !.pc = "transfer_reply"], threads[t].recipient,
                   DecAdd(threads[t].loaded, threads[t].amount))

\* backend/api/accounts.py: TransferResponse(...) without
\* sender_previous_balance, a ValueError, which the handler answers with
\* AccountNotFoundError(account_number).  legacy/routers/accounts.py:
\* TransferResponse(sender_previous_balance=sender.balance + request.amount,
\* sender_new_balance=sender.balance, ...)
transfer_reply(t) ==
    /\ threads[t].pc = "transfer_reply"
    /\ LET sender_balance == accounts[threads[t].account].balance
           status == IF impl = "test" THEN "AccountNotFound"
                     ELSE IF TransferResponseValid(TransferResponseRequired,
                                                   DecAdd(sender_balance, threads[t].amount),
                                                   sender_balance, threads[t].amount)
                     THEN "ok" ELSE "ServerError"
       IN  ThreadStep(t, [threads[t] EXCEPT !.pc = "done", !.status = status,
                             !.new_balance = sender_balance])

InitThreads == Init /\ impl \in {"test", "mem"}

NextThreads ==
    \E t \in 1..NThreads :
        \/ withdraw_start(t)
        \/ withdraw_check(t)
        \/ withdraw_previous(t)
        \/ withdraw_load(t)
        \/ withdraw_store(t)
        \/ withdraw_reply(t)
        \/ transfer_start(t)
        \/ transfer_check(t)
        \/ transfer_debit_load(t)
        \/ transfer_debit_store(t)
        \/ transfer_credit_load(t)
        \/ transfer_credit_store(t)
        \/ transfer_reply(t)

SpecThreads == InitThreads /\ [][NextThreads]_vars

(***************************************************************************)
(* Deposits and withdrawals alone, followed further                        *)
(***************************************************************************)
RoundTripRequests == {<<"123456", A001>>, <<"123456", A10000>>, <<"555444", A100>>}

InitRoundTrip == InitStore(MaxRoundTripTime)

NextRoundTrip ==
    \E q \in RoundTripRequests :
        \/ deposit_money_test(q[1], q[2])
        \/ withdraw_money_test(q[1], q[2])
        \/ deposit_money_mem(q[1], q[2])
        \/ withdraw_money_mem(q[1], q[2])
        \/ DatabaseInterface_deposit(q[1], q[2])
        \/ DatabaseInterface_withdraw(q[1], q[2])

SpecRoundTrip == InitRoundTrip /\ [][NextRoundTrip]_vars

(***************************************************************************)
(* Deposits of the largest amount into one account, one after another      *)
(***************************************************************************)
\* Account.balance: Field(ge=0, le=1000000)
MaxBalance == Dec(1000000, 0)

InitCeiling == InitStore(MaxCeilingTime)

NextCeiling ==
    \/ deposit_money_test("123456", A10000)
    \/ deposit_money_mem("123456", A10000)
    \/ DatabaseInterface_deposit("123456", A10000)

SpecCeiling == InitCeiling /\ [][NextCeiling]_vars

(***************************************************************************)
(* Time deposits of every duration.  The router validates the duration,    *)
(* create_time_deposit of the data layer takes any int.                    *)
(***************************************************************************)
InitRates == InitStore(MaxRateTime)

NextRates ==
    \E m \in 1..MaxDuration :
        \/ create_time_deposit_mem("123456", A100, m, FALSE)
        \/ pg_create_time_deposit("123456", A100, m)

SpecRates == InitRates /\ [][NextRates]_vars

(***************************************************************************)
(* The transaction history of an account.                                  *)
(* PostgreSQLAccountDatabase.get_transaction_history is                    *)
(*   query(TransactionModel).filter(account_number == a)                   *)
(*       .order_by(timestamp.desc()).limit(limit).offset(offset).all()     *)
(* Rows of equal timestamp come in an order the database chooses.          *)
(***************************************************************************)
\* .filter(TransactionModel.account_number == account_number): the positions
\* of the account's rows in the journal
filter_account(jrnl, account_number) ==
    {i \in 1..Len(jrnl) : jrnl[i].account_number = account_number}

\* faulty variant of order_by_timestamp_desc: oldest first
RECURSIVE order_by_timestamp_asc(_, _)
order_by_timestamp_asc(jrnl, rows) ==
    IF rows = {} THEN {<<>>}
    ELSE UNION {{<<jrnl[i]>> \o s : s \in order_by_timestamp_asc(jrnl, rows \ {i})} :
                   i \in {j \in rows : \A k \in rows : jrnl[j].timestamp <= jrnl[k].timestamp}}

\* .order_by(TransactionModel.timestamp.desc()): every order of the rows in
\* which no row comes before a newer one
RECURSIVE order_by_timestamp_desc(_, _)
order_by_timestamp_desc(jrnl, rows) ==
    IF rows = {} THEN {<<>>}
    ELSE UNION {{<<jrnl[i]>> \o s : s \in order_by_timestamp_desc(jrnl, rows \ {i})} :
                   i \in {j \in rows : \A k \in rows : jrnl[j].timestamp >= jrnl[k].timestamp}}

\* .limit(limit).offset(offset): LIMIT limit OFFSET offset
limit_offset(rows, limit, offset) ==
    SubSeq(rows, offset + 1,
           IF offset + limit < Len(rows) THEN offset + limit ELSE Len(rows))

\* PostgreSQLAccountDatabase.get_transaction_history
pg_get_transaction_history(a, limit, offset) ==
    /\ impl = "pg"
    /\ LET r == [Response("get_transaction_history", a, "", NoMoney)
                   EXCEPT !.limit = limit, !.offset = offset] IN
       \E rows \in order_by_timestamp_desc(journal, filter_account(journal, a)) :
           Reply([r EXCEPT !.transactions = limit_offset(rows, limit, offset)])

\* GET /accounts/{account_number}/transactions of accounts_pg.py
get_transaction_history_pg(a, limit, offset) ==
    /\ impl = "pg"
    /\ LET r == [Response("get_transaction_history", a, "", NoMoney)
                   EXCEPT !.limit = limit, !.offset = offset] IN
       IF ~PathPatternPg(a) THEN Reply(ValidationError(r))
       ELSE IF a \notin DOMAIN accounts THEN Reply(ServerError(r, "TypeError"))
       ELSE \E rows \in order_by_timestamp_desc(journal, filter_account(journal, a)) :
               Reply([r EXCEPT !.transactions = limit_offset(rows, limit, offset)])

\* the queries: limit and offset of the query string
HistoryRequests ==
    {<<a, limit, offset>> : a \in {"123456", "789012"}, limit \in {1, 2}, offset \in {0, 1}}
        \cup {<<"123456", 50, 0>>, <<"999999", 50, 0>>}

InitHistory == InitStore(MaxHistoryTime) /\ impl = "pg"

NextHistory ==
    \/ DatabaseInterface_deposit("123456", A100)
    \/ \E q \in {<<"123456", "789012">>, <<"789012", "123456">>, <<"123456", "123456">>} :
           pg_transfer_money(q[1], q[2], A100)
    \/ \E q \in HistoryRequests : pg_get_transaction_history(q[1], q[2], q[3])
    \/ \E q \in HistoryRequests \cup {<<PgPath, 50, 0>>} :
           get_transaction_history_pg(q[1], q[2], q[3])

SpecHistory == InitHistory /\ [][NextHistory]_vars

(***************************************************************************)
(* Maturing one time deposit from several threads.                         *)
(* AccountDatabase.mature_time_deposit reads deposit.is_matured, adds the  *)
(* final amount to account.balance and sets deposit.is_matured, on the     *)
(* shared objects and without a lock.  force_mature is set, so that the    *)
(* maturity date does not stand in the way.                                *)
(***************************************************************************)
ThreadDeposit == 1

\* the time deposit the threads mature: 100.00 or 1000.00 of 123456, for 12 or
\* 36 months
open_time_deposit ==
    /\ time_deposits = <<>>
    /\ \A t \in 1..NThreads : threads[t].pc = "idle"
    /\ \E x \in {A100, A1000}, m \in {12, 36} :
          create_time_deposit_mem(ThreadAccount, x, m, FALSE)

\* POST /time-deposits/{deposit_id}/mature?force_mature=true
mature_start(t) ==
    /\ threads[t].pc = "idle"
    /\ ThreadDeposit \in DOMAIN time_deposits
    /\ ThreadStep(t, [threads[t] EXCEPT !.pc = "mature_check", !.op = "mature",
                         !.account = time_deposits[ThreadDeposit].account_number])

\* if deposit.is_matured: raise ValueError("... is already matured")
mature_check(t) ==
    /\ threads[t].pc = "mature_check"
    /\ IF already_matured(time_deposits[ThreadDeposit])
       THEN ThreadStep(t, [threads[t] EXCEPT !.pc = "done", !.status = "AlreadyMatured"])
       ELSE ThreadStep(t, [threads[t] EXCEPT !.pc = "mature_load",
                              !.amount = final_amount(time_deposits[ThreadDeposit])])

\* account.balance += final_amount: the read
mature_load(t) ==
    /\ threads[t].pc = "mature_load"
    /\ ThreadStep(t, [threads[t] EXCEPT !.pc = "mature_store",
                         !.loaded = accounts[threads[t].account].balance])

\* account.balance += final_amount: the write
mature_store(t) ==
    /\ threads[t].pc = "mature_store"
    /\ ThreadStore(t, [threads[t] EXCEPT !.pc = "mature_mark"], threads[t].account,
                   DecAdd(threads[t].loaded, threads[t].amount))

\* deposit.is_matured = True
mature_mark(t) ==
    /\ threads[t].pc = "mature_mark"
    /\ impl = "mem"
    /\ threads' = [threads EXCEPT ![t] = [threads[t] EXCEPT !.pc = "done", !.status = "ok"]]
    /\ time_deposits' = [time_deposits EXCEPT ![ThreadDeposit].is_matured = TRUE]
    /\ UNCHANGED <<impl, accounts, journal, now, resp, before, deposits_before,
                    earlier, horizon, process>>

InitMature == Init /\ impl = "mem"

NextMature ==
    \/ open_time_deposit
    \/ \E t \in 1..NThreads : mature_start(t)
    \/ \E t \in 1..NThreads : mature_check(t)
    \/ \E t \in 1..NThreads : mature_load(t)
    \/ \E t \in 1..NThreads : mature_store(t)
    \/ \E t \in 1..NThreads : mature_mark(t)

SpecMature == InitMature /\ [][NextMature]_vars

(***************************************************************************)
(* Transfers in concurrent database sessions.                              *)
(* PostgreSQLAccountDatabase.transfer_money selects both rows, assigns the *)
(* new balances to the row objects and commits: the flush updates one row  *)
(* after the other, each UPDATE takes the lock of its row and waits while  *)
(* another session holds it, and the commit makes the rows and the two     *)
(* transaction rows visible and releases the locks.  The order of the two  *)
(* UPDATEs is the unit of work's.  Two sessions that each hold the row the *)
(* other waits for are a deadlock, which the database ends by failing the  *)
(* UPDATE of one of them; transfer_money then rolls back and re-raises.    *)
(* The isolation level is the default, read committed.                     *)
(***************************************************************************)
\* a step of session t that writes its locals only
SessionStep(t, new_thread) ==
    /\ impl = "pg"
    /\ threads' = [threads EXCEPT ![t] = new_thread]
    /\ UNCHANGED <<impl, accounts, time_deposits, journal, now, resp, before,
                    deposits_before, earlier, horizon, process>>

\* transfer_money(sender_account, recipient_account, amount)
session_transfer_start(t) ==
    /\ threads[t].pc = "idle"
    /\ \E q \in ThreadTransfers :
          SessionStep(t, [threads[t] EXCEPT !.pc = "select_sender", !.op = "transfer",
                             !.account = q[1], !.recipient = q[2],
                             !.amount = ThreadAmount])

\* sender = self.get_account(sender_account)
session_select_sender(t) ==
    /\ threads[t].pc = "select_sender"
    /\ SessionStep(t, [threads[t] EXCEPT !.pc = "select_recipient",
                          !.loaded = accounts[threads[t].account].balance])

\* recipient = self.get_account(recipient_account);
\* if sender.balance < amount: raise ValueError(...);
\* the assignments to sender and recipient, and the order of the flush
session_select_recipient(t) ==
    /\ threads[t].pc = "select_recipient"
    /\ IF DecLt(threads[t].loaded, threads[t].amount)
       THEN SessionStep(t, [threads[t] EXCEPT !.pc = "done",
                               !.status = "InsufficientFunds"])
       ELSE \E rows \in {<<threads[t].account, threads[t].recipient>>,
                         <<threads[t].recipient, threads[t].account>>} :
               SessionStep(t, [threads[t] EXCEPT !.pc = "update", !.rows = rows,
                                  !.new_balance =
                                      DecAdd(accounts[threads[t].recipient].balance,
                                             threads[t].amount)])

\* self.db.commit(), the flush: UPDATE accounts SET balance = ... of the next
\* row, once no other session holds its lock
session_update(t) ==
    /\ threads[t].pc = "update"
    /\ \A u \in 1..NThreads \ {t} : Head(threads[t].rows) \notin threads[u].holds
    /\ SessionStep(t, [threads[t] EXCEPT
                          !.pc = IF Len(threads[t].rows) = 1 THEN "commit" ELSE "update",
                          !.holds = threads[t].holds \cup {Head(threads[t].rows)},
                          !.rows = Tail(threads[t].rows)])

\* self.db.commit(), the COMMIT: both rows and both transaction rows
session_commit(t) ==
    /\ threads[t].pc = "commit"
    /\ impl = "pg"
    /\ LET a == threads[t].account
           b == threads[t].recipient
           amount == threads[t].amount
           new_sender_balance == DecSub(threads[t].loaded, amount)
           sender_transaction ==
               TransactionModel(a, "transfer_out", amount,
                                DecAdd(new_sender_balance, amount),
                                new_sender_balance, now + 1, NewReferenceId)
           recipient_transaction ==
               TransactionModel(b, "transfer_in", amount,
                                DecSub(threads[t].new_balance, amount),
                                threads[t].new_balance, now + 1, NewReferenceId)
       IN  /\ accounts' = [accounts EXCEPT
                              ![a] = Account(Numeric2(new_sender_balance), now + 1),
                              ![b] = Account(Numeric2(threads[t].new_balance), now + 1)]
           /\ journal' = journal \o <<sender_transaction, recipient_transaction>>
    /\ now' = now + 1
    /\ threads' = [threads EXCEPT ![t] = [threads[t] EXCEPT !.pc = "done", !.status = "ok",
                                                          !.holds = {}]]
    /\ UNCHANGED <<impl, time_deposits, resp, before, deposits_before, earlier, horizon, process>>

\* faulty variant of Deadlock: a database that does not look for deadlocks
NoDeadlock(t) == FALSE

\* session t waits for a row held by a session that waits for a row held by t
Deadlock(t) ==
    /\ threads[t].pc = "update"
    /\ \E u \in 1..NThreads \ {t} :
          /\ threads[u].pc = "update"
          /\ Head(threads[t].rows) \in threads[u].holds
          /\ Head(threads[u].rows) \in threads[t].holds

\* the database fails the UPDATE of a deadlocked session:
\* except Exception as e: self.db.rollback(); raise e
session_rollback(t) ==
    /\ Deadlock(t)
    /\ SessionStep(t, [threads[t] EXCEPT !.pc = "done", !.status = "ServerError",
                          !.rows = <<>>, !.holds = {}])

\* the steps of thread t: of a session, or of AccountDatabase.transfer_money
TransferNext(t) ==
    \/ session_transfer_start(t)
    \/ session_select_sender(t)
    \/ session_select_recipient(t)
    \/ session_update(t)
    \/ session_commit(t)
    \/ session_rollback(t)
    \/ transfer_start(t)
    \/ transfer_check(t)
    \/ transfer_debit_load(t)
    \/ transfer_debit_store(t)
    \/ transfer_credit_load(t)
    \/ transfer_credit_store(t)
    \/ transfer_reply(t)

InitSessions == Init /\ impl \in {"mem", "pg"}

NextSessions ==
    \/ \E t \in 1..NThreads : session_transfer_start(t)
    \/ \E t \in 1..NThreads : session_select_sender(t)
    \/ \E t \in 1..NThreads : session_select_recipient(t)
    \/ \E t \in 1..NThreads : session_update(t)
    \/ \E t \in 1..NThreads : session_commit(t)
    \/ \E t \in 1..NThreads : session_rollback(t)
    \/ \E t \in 1..NThreads : transfer_start(t)
    \/ \E t \in 1..NThreads : transfer_check(t)
    \/ \E t \in 1..NThreads : transfer_debit_load(t)
    \/ \E t \in 1..NThreads : transfer_debit_store(t)
    \/ \E t \in 1..NThreads : transfer_credit_load(t)
    \/ \E t \in 1..NThreads : transfer_credit_store(t)
    \/ \E t \in 1..NThreads : transfer_reply(t)

\* every thread is scheduled again and again, and the database looks for
\* deadlocks again and again
SpecSessions ==
    /\ InitSessions
    /\ [][NextSessions]_vars
    /\ \A t \in 1..NThreads : WF_vars(TransferNext(t))

(***************************************************************************)
(* Time deposits of the relational store when a commit fails.              *)
(* create_time_deposit and mature_time_deposit each commit twice:          *)
(* update_account_balance commits the account row and its transaction row, *)
(* and the method then commits the time deposit row.  A commit raises when *)
(* the database refuses it or the connection is lost; the except branch    *)
(* rolls back what is not yet committed and re-raises.  failed is the      *)
(* commit that raises, 1 the one of update_account_balance, 2 the          *)
(* method's own.                                                           *)
(***************************************************************************)
create_time_deposit_failing(a, amount, m, failed) ==
    /\ impl = "pg"
    /\ a \in DOMAIN accounts
    /\ DecLe(amount, accounts[a].balance)
    /\ LET r == ServerError([Response("create_time_deposit", a, "", amount)
                               EXCEPT !.duration_months = m], "commit")
           u == update_account_balance(accounts, journal, a,
                                       DecSub(accounts[a].balance, amount),
                                       "time_deposit", amount, now + 1)
       IN  IF failed = 1 THEN Reply(r)
           ELSE Commit(r, u.accounts, time_deposits, u.journal)

mature_time_deposit_failing(deposit_id, failed) ==
    /\ impl = "pg"
    /\ deposit_id \in DOMAIN time_deposits
    /\ ~already_matured(time_deposits[deposit_id])
    /\ LET deposit == time_deposits[deposit_id]
           a == deposit.account_number
           final == final_amount(deposit)
           r == ServerError([Response("mature_time_deposit", a, "", NoMoney)
                               EXCEPT !.deposit_id = deposit_id], "commit")
           u == update_account_balance(accounts, journal, a,
                                       DecAdd(accounts[a].balance, final),
                                       "time_deposit_maturity", final, now + 1)
       IN  IF failed = 1 THEN Reply(r)
           ELSE Commit(r, u.accounts, time_deposits, u.journal)

InitFailing == Init /\ impl = "pg"

NextFailing ==
    \/ \E a \in PgAccounts, x \in {A100, Dec(10020, -2)} : pg_create_time_deposit(a, x, 12)
    \/ \E d \in DepositIds : mature_time_deposit_pg(d)
    \/ \E a \in PgAccounts, x \in {A100, Dec(10020, -2)}, failed \in {1, 2} :
           create_time_deposit_failing(a, x, 12, failed)
    \/ \E d \in DepositIds, failed \in {1, 2} : mature_time_deposit_failing(d, failed)

SpecFailing == InitFailing /\ [][NextFailing]_vars

(***************************************************************************)
(* RateLimitMiddleware (security.py).  requests[client_ip] is the list of  *)
(* the times of the client's requests the middleware passed on, now the    *)
(* clock of time.time() in whole seconds.  dispatch runs without an await  *)
(* up to call_next, so one dispatch is one step; forwarded[client_ip] are  *)
(* the times of the requests given to call_next.                           *)
(***************************************************************************)
\* faulty variant of limit_reached: one request more than calls
limit_exceeded(times) == Len(times) > calls

\* if len(self.requests[client_ip]) >= self.calls
limit_reached(times) == Len(times) >= calls

dispatch(client_ip) ==
    LET r == Response("dispatch", client_ip, "", NoMoney)
        recent(req_time) == now - req_time < period
        kept == SelectSeq(requests[client_ip], recent)
    IN  /\ IF limit_reached(kept)
           THEN /\ requests' = [requests EXCEPT ![client_ip] = kept]
                /\ resp' = [r EXCEPT !.status = "RateLimit",
                                     !.detail = "Rate limit exceeded. Try again later."]
                /\ UNCHANGED forwarded
           ELSE /\ requests' = [requests EXCEPT ![client_ip] = Append(kept, now)]
                /\ forwarded' = [forwarded EXCEPT ![client_ip] = Append(@, now)]
                /\ resp' = r
        /\ UNCHANGED <<impl, accounts, time_deposits, journal, now, before,
                        deposits_before, earlier, threads, horizon, instance, initialized>>

\* a second passes on the clock
time_passes ==
    /\ now < horizon
    /\ now' = now + 1
    /\ UNCHANGED <<impl, accounts, time_deposits, journal, resp, before,
                    deposits_before, earlier, threads, horizon, process>>

InitLimiter == InitStore(MaxLimiterTime) /\ impl = "mem"

NextLimiter ==
    \/ \E client_ip \in Clients : dispatch(client_ip)
    \/ time_passes

SpecLimiter == InitLimiter /\ [][NextLimiter]_vars

(***************************************************************************)
(* TestDatabase as a singleton (backend/database/test_db.py).  instance    *)
(* and initialized are the class attributes _instance and _initialized;    *)
(* the class is defined with None and False, and the module constructs db  *)
(* before any handler can run.  The one object the class ever allocates    *)
(* is 1.                                                                   *)
(***************************************************************************)
\* faulty variant of not_initialized: every construction initialises
always_not_initialized == TRUE

\* if not TestDatabase._initialized
not_initialized == ~initialized

\* TestDatabase(): __new__, then __init__ on the object __new__ returned
TestDatabase ==
    /\ impl = "test"
    /\ LET new_instance == IF instance = None THEN 1 ELSE instance
       IN  /\ instance' = new_instance
           /\ resp' = [Response("TestDatabase", "", "", NoMoney)
                          EXCEPT !.instance = new_instance]
    /\ IF not_initialized
       THEN accounts' = SeedAccounts /\ initialized' = TRUE
       ELSE UNCHANGED <<accounts, initialized>>
    /\ before' = accounts
    /\ deposits_before' = time_deposits
    /\ earlier' = NoDeposit
    /\ UNCHANGED <<impl, time_deposits, journal, now, threads, horizon,
                    requests, forwarded>>

InitSingleton ==
    /\ impl = "test"
    /\ accounts = <<>>
    /\ time_deposits = <<>>
    /\ journal = <<>>
    /\ now = 0
    /\ resp = Response("none", "", "", NoMoney)
    /\ before = <<>>
    /\ deposits_before = <<>>
    /\ earlier = NoDeposit
    /\ threads = IdleThreads
    /\ horizon = MaxTime
    /\ requests = [client_ip \in Clients |-> <<>>]
    /\ forwarded = [client_ip \in Clients |-> <<>>]
    /\ instance = None
    /\ initialized = FALSE

\* a request to the application of create_test_app, whose accounts.db is the
\* db the module test_db constructed
test_app_request ==
    /\ instance # None
    /\ \/ \E q \in DepositRequests : deposit_money_test(q[1], q[2])
       \/ \E q \in WithdrawRequests : withdraw_money_test(q[1], q[2])
       \/ reset_test_database

NextSingleton ==
    \/ TestDatabase
    \/ test_app_request

SpecSingleton == InitSingleton /\ [][NextSingleton]_vars

(***************************************************************************)
(* Properties                                                              *)
(***************************************************************************)
\* C1: in every reachable state, after any sequence of account creations,
\* deposits, withdrawals, transfers, time deposit creations and maturations,
\* successful or failed, every stored balance is at least zero
C1_NonNegativity == \A a \in DOMAIN accounts : DecLe(Zero, accounts[a].balance)

\* C2: a transfer between two different accounts that succeeds, or that
\* changes the store at all, takes exactly the amount from the sender and
\* adds exactly the amount to the recipient, so the sum of the two balances
\* is what it was before
C2_TransferConservation ==
    (/\ resp.op = "transfer"
     /\ resp.account # resp.recipient
     /\ resp.status = "ok" \/ accounts # before)
        => /\ DecEq(accounts[resp.account].balance,
                    DecSub(before[resp.account].balance, resp.amount))
           /\ DecEq(accounts[resp.recipient].balance,
                    DecAdd(before[resp.recipient].balance, resp.amount))
           /\ DecEq(DecAdd(accounts[resp.account].balance, accounts[resp.recipient].balance),
                    DecAdd(before[resp.account].balance, before[resp.recipient].balance))

\* a successful transfer of 100.00 from 123456 (1000.00) to 789012 (500.00)
C2_Witness ==
    /\ resp.op = "transfer"
    /\ resp.status = "ok"
    /\ resp.account = "123456"
    /\ resp.recipient = "789012"
    /\ before["123456"].balance = Dec(100000, -2)
    /\ accounts["123456"].balance = Dec(90000, -2)
    /\ accounts["789012"].balance = Dec(60000, -2)

Successes == {t \in 1..NThreads : threads[t].status = "ok"}

\* C3: when every thread has run one withdrawal of 100.00 against 123456
\* (1000.00) to its end, each has exactly one outcome, the balance is not
\* negative, and the balance is 1000.00 less 100.00 for each success
C3_ConcurrentWithdrawals ==
    (\A t \in 1..NThreads : /\ threads[t].op = "withdraw"
                              /\ threads[t].pc = "done"
                              /\ threads[t].amount = ThreadAmount)
        => /\ \A t \in 1..NThreads : threads[t].status \in {"ok", "InsufficientFunds"}
           /\ DecLe(Zero, accounts[ThreadAccount].balance)
           /\ DecEq(accounts[ThreadAccount].balance,
                    DecSub(SeedAccounts[ThreadAccount].balance,
                           DecMul(ThreadAmount, Dec(Cardinality(Successes), 0))))

\* C4: while transfers are the only requests running, every state of the
\* store shows both updates of a transfer or neither: the balances of sender
\* and recipient add up to what they added up to at the start
C4_TransferAtomic ==
    (\A t \in 1..NThreads : threads[t].op \in {"none", "transfer"})
        => DecEq(DecAdd(accounts[ThreadAccount].balance, accounts[ThreadRecipient].balance),
                 DecAdd(SeedAccounts[ThreadAccount].balance,
                        SeedAccounts[ThreadRecipient].balance))

\* the path pattern of the router that serves the request
RouterPath(a) == IF impl = "pg" THEN PathPatternPg(a) ELSE PathPattern(a)

\* C5: a withdrawal of a valid amount from an existing account fails with
\* InsufficientFunds, carrying the balance and the requested amount, exactly
\* when the balance is less than the amount, and then leaves the account as
\* it was; otherwise it succeeds and the balance is the old one less the amount
C5_WithdrawInsufficientFunds ==
    (/\ resp.op = "withdraw"
     /\ resp.account \in DOMAIN before
     /\ TransactionRequestValid(resp.amount))
        => IF DecLt(before[resp.account].balance, resp.amount)
           THEN /\ resp.status = "InsufficientFunds"
                /\ resp.named = resp.account
                /\ DecEq(resp.balance, before[resp.account].balance)
                /\ DecEq(resp.requested, resp.amount)
                /\ accounts = before
           ELSE /\ resp.status = "ok"
                /\ DecEq(accounts[resp.account].balance,
                         DecSub(before[resp.account].balance, resp.amount))

\* C6: a successful deposit of x followed at once by a successful withdrawal
\* of x from the same account leaves exactly the balance the deposit found,
\* whatever came before, so repeating the pair does not drift
C6_RoundTrip ==
    (/\ resp.op = "withdraw"
     /\ resp.status = "ok"
     /\ earlier.account = resp.account
     /\ DecEq(earlier.amount, resp.amount))
        => accounts[resp.account].balance = earlier.balance

\* the second pair in a row of deposit and withdrawal of 0.01 on 123456
C6_Witness ==
    /\ now = 4
    /\ resp.op = "withdraw"
    /\ resp.status = "ok"
    /\ resp.account = "123456"
    /\ earlier.account = "123456"
    /\ resp.amount = A001
    /\ earlier.amount = A001
    /\ earlier.balance = SeedAccounts["123456"].balance
    /\ accounts["123456"] = Account(SeedAccounts["123456"].balance, 4)

\* C7: a deposit, withdrawal or transfer whose amount has three or more
\* decimal places is answered as invalid, and the step changes no account,
\* no time deposit and no transaction record
C7_PrecisionRejected ==
    [][(resp'.op \in {"deposit", "withdraw", "transfer"} /\ resp'.amount.e < -2)
          => /\ resp'.status = "ValidationError"
             /\ UNCHANGED <<accounts, time_deposits, journal, now>>]_vars

\* 100.123 offered for deposit after the store has been written
C7_Witness ==
    /\ resp.op = "deposit"
    /\ resp.amount = Dec(100123, -3)
    /\ resp.status = "ValidationError"
    /\ now > 0
    /\ accounts = before

\* C8: a deposit, withdrawal or transfer is not answered as invalid exactly
\* when its amount is above zero and at most 10000 (its path being one the
\* router takes); a time deposit that is not answered as invalid has a
\* principal above zero and at most 100000; an invalid request changes no
\* balance
C8_AmountBounds ==
    /\ (resp.op \in {"deposit", "withdraw", "transfer"} /\ resp.status # "ValidationError")
          => DecLt(Zero, resp.amount) /\ DecLe(resp.amount, A10000)
    /\ (/\ resp.op \in {"deposit", "withdraw", "transfer"}
        /\ RouterPath(resp.account)
        /\ resp.op = "transfer" => PathPattern(resp.recipient)
        /\ DecLt(Zero, resp.amount) /\ DecLe(resp.amount, A10000) /\ resp.amount.e >= -2)
          => resp.status # "ValidationError"
    /\ (resp.op = "create_time_deposit" /\ resp.status # "ValidationError")
          => DecLt(Zero, resp.amount) /\ DecLe(resp.amount, P100000)
    /\ resp.status = "ValidationError" => accounts = before

\* a deposit of exactly 10000 that succeeds
C8_Witness ==
    /\ resp.op = "deposit"
    /\ resp.amount = A10000
    /\ resp.status = "ok"
    /\ DecEq(accounts[resp.account].balance,
             DecAdd(before[resp.account].balance, A10000))

C10_AccountNotFound ==
    (/\ resp.op \in {"get_balance", "deposit", "withdraw"}
     /\ PathPattern(resp.account)
     /\ resp.account \notin DOMAIN before
     /\ resp.op # "get_balance" => TransactionRequestValid(resp.amount))
        => /\ resp.status = "AccountNotFound"
           /\ resp.named = resp.account
           /\ accounts = before

\* C11: a transfer with a valid amount from an existing account to itself is
\* answered with the validation error SameAccount, and the account keeps its
\* balance and its last_transaction
C11_SameAccount ==
    (/\ resp.op = "transfer"
     /\ resp.account = resp.recipient
     /\ resp.account \in DOMAIN before
     /\ TransactionRequestValid(resp.amount))
        => /\ resp.status = "SameAccount"
           /\ accounts[resp.account] = before[resp.account]

\* C12: a transfer with a valid amount between two different six-digit
\* accounts of which one is not in the store is answered with AccountNotFound,
\* naming the sender when the sender is missing and the recipient when only
\* the recipient is missing, and no account changes
C12_TransferAccountNotFound ==
    (/\ resp.op = "transfer"
     /\ resp.account # resp.recipient
     /\ PathPattern(resp.account) /\ PathPattern(resp.recipient)
     /\ TransactionRequestValid(resp.amount)
     /\ resp.account \notin DOMAIN before \/ resp.recipient \notin DOMAIN before)
        => /\ resp.status = "AccountNotFound"
           /\ resp.named = IF resp.account \notin DOMAIN before
                           THEN resp.account ELSE resp.recipient
           /\ accounts = before

\* C13: a transfer with a valid amount between two different stored accounts
\* is answered with InsufficientFunds exactly when the sender's balance is
\* less than the amount, and a transfer that is not answered as a success
\* leaves the balances of sender and recipient as they were
C13_TransferInsufficientFunds ==
    (/\ resp.op = "transfer"
     /\ resp.account # resp.recipient
     /\ resp.account \in DOMAIN before /\ resp.recipient \in DOMAIN before
     /\ TransactionRequestValid(resp.amount))
        => /\ resp.status = "InsufficientFunds"
                <=> DecLt(before[resp.account].balance, resp.amount)
           /\ resp.status # "ok"
                => /\ accounts[resp.account].balance = before[resp.account].balance
                   /\ accounts[resp.recipient].balance = before[resp.recipient].balance

\* C14: no stored balance is above 1,000,000.00, and a deposit that would
\* take the balance above it is answered with LimitExceeded and leaves the
\* account as it was
C14_BalanceCeiling ==
    /\ \A a \in DOMAIN accounts : DecLe(accounts[a].balance, MaxBalance)
    /\ (/\ resp.op = "deposit"
        /\ resp.account \in DOMAIN before
        /\ TransactionRequestValid(resp.amount)
        /\ DecLt(MaxBalance, DecAdd(before[resp.account].balance, resp.amount)))
          => /\ resp.status = "LimitExceeded"
             /\ accounts = before

\* C15: a time deposit that is created successfully takes exactly the
\* principal from the balance of its account (the balance is what the account
\* can spend) and leaves the other accounts alone; the store holds one
\* deposit more, for that account and that principal, not matured, and the
\* deposits it held before are as they were
C15_CreateTimeDeposit ==
    (resp.op = "create_time_deposit" /\ resp.status = "ok")
        => /\ DecEq(accounts[resp.account].balance,
                    DecSub(before[resp.account].balance, resp.amount))
           /\ \A a \in DOMAIN accounts \ {resp.account} : accounts[a] = before[a]
           /\ resp.deposit_id \notin DOMAIN deposits_before
           /\ DOMAIN time_deposits = DOMAIN deposits_before \cup {resp.deposit_id}
           /\ \A d \in DOMAIN deposits_before : time_deposits[d] = deposits_before[d]
           /\ time_deposits[resp.deposit_id].account_number = resp.account
           /\ DecEq(time_deposits[resp.deposit_id].amount, resp.amount)
           /\ ~time_deposits[resp.deposit_id].is_matured

\* 100.0 of the 1000.00 of 123456 put into a first time deposit
C15_Witness ==
    /\ resp.op = "create_time_deposit"
    /\ resp.status = "ok"
    /\ resp.account = "123456"
    /\ before["123456"].balance = Dec(100000, -2)
    /\ accounts["123456"].balance = Dec(90000, -2)
    /\ Len(time_deposits) = 1
    /\ ~time_deposits[1].is_matured

\* C16: a request to create a time deposit, valid in principal and duration,
\* is answered with AccountNotFound naming the account when the account is
\* not in the store, and with InsufficientFunds naming it when its balance is
\* less than the principal; in both cases no deposit is recorded and no
\* account changes
C16_CreateTimeDepositFails ==
    (/\ resp.op = "create_time_deposit"
     /\ PathPattern(resp.account)
     /\ TimeDepositAmountValid(resp.amount)
     /\ DurationValid(resp.duration_months))
        => /\ resp.account \notin DOMAIN before
                => /\ resp.status = "AccountNotFound"
                   /\ resp.named = resp.account
                   /\ accounts = before
                   /\ time_deposits = deposits_before
           /\ (resp.account \in DOMAIN before
               /\ DecLt(before[resp.account].balance, resp.amount))
                => /\ resp.status = "InsufficientFunds"
                   /\ resp.named = resp.account
                   /\ accounts = before
                   /\ time_deposits = deposits_before

\* C17: a time deposit goes from active to matured and nowhere else: no step
\* removes a deposit, a matured deposit is the same after every step, an
\* active one changes only by becoming matured, and a request to mature a
\* deposit that is matured already, forced or not, fails saying so and
\* changes no account, no deposit and no transaction record
C17_MaturedTerminal ==
    [][/\ \A d \in DOMAIN time_deposits :
             /\ d \in DOMAIN time_deposits'
             /\ IF time_deposits[d].is_matured
                THEN time_deposits'[d] = time_deposits[d]
                ELSE [time_deposits'[d] EXCEPT !.is_matured = FALSE,
                                               !.final_amount = NoMoney]
                        = time_deposits[d]
       /\ (/\ resp'.op = "mature_time_deposit"
           /\ resp'.deposit_id \in DOMAIN time_deposits
           /\ time_deposits[resp'.deposit_id].is_matured)
             => /\ resp'.status # "ok"
                /\ resp'.detail = "is already matured"
                /\ UNCHANGED <<accounts, time_deposits, journal>>]_vars

\* a second request to mature deposit 1, refused
C17_Witness ==
    /\ resp.op = "mature_time_deposit"
    /\ resp.deposit_id = 1
    /\ resp.detail = "is already matured"
    /\ deposits_before[1].is_matured
    /\ time_deposits[1].is_matured
    /\ accounts = before

\* C18: a request without force to mature an active deposit whose maturity
\* date lies ahead (one made without the test window matures thirty days
\* times its months after its creation) fails saying that the maturity date
\* is not reached, and changes no account and no deposit
C18_NotYetMature ==
    (/\ resp.op = "mature_time_deposit"
     /\ resp.deposit_id \in DOMAIN deposits_before
     /\ ~deposits_before[resp.deposit_id].is_matured
     /\ ~resp.force_mature
     /\ now + 1 < deposits_before[resp.deposit_id].maturity_date)
        => /\ resp.status # "ok"
           /\ resp.detail = "has not reached maturity date"
           /\ accounts = before
           /\ time_deposits = deposits_before

\* C19: every stored time deposit, and every answer to a successful creation,
\* carries the annual rate of the smallest tier of 1, 3, 6, 12, 24, 36, 48,
\* 60 months that is not shorter than its duration (1%, 1.5%, 2%, 2.5%, 3%,
\* 3.5%, 4%, 4.5%), and 4.5% for a duration above 60; no shorter duration
\* has a higher rate
C19_InterestRateTiers ==
    LET tier(m) == CASE m <= 1 -> Dec(10, -3) [] m > 1 /\ m <= 3 -> Dec(15, -3)
                     [] m > 3 /\ m <= 6 -> Dec(20, -3)
                     [] m > 6 /\ m <= 12 -> Dec(25, -3)
                     [] m > 12 /\ m <= 24 -> Dec(30, -3)
                     [] m > 24 /\ m <= 36 -> Dec(35, -3)
                     [] m > 36 /\ m <= 48 -> Dec(40, -3)
                     [] m > 48 -> Dec(45, -3)
    IN  /\ \A d \in DOMAIN time_deposits :
               DecEq(time_deposits[d].interest_rate, tier(time_deposits[d].duration_months))
        /\ (resp.op = "create_time_deposit" /\ resp.status = "ok")
              => /\ DecEq(resp.interest_rate, tier(resp.duration_months))
                 /\ \A m \in 1..resp.duration_months :
                        DecLe(get_interest_rate(m), resp.interest_rate)

\* a deposit for seven months, between two tiers: 2.5%
C19_Witness ==
    /\ resp.op = "create_time_deposit"
    /\ resp.status = "ok"
    /\ resp.duration_months = 7
    /\ resp.interest_rate = Dec(25, -3)
    /\ time_deposits[1].duration_months = 7
    /\ time_deposits[1].interest_rate = Dec(25, -3)

\* C20: a request to mature a deposit that succeeds credits to the account of
\* the deposit the principal plus principal * annual rate * months / 12,
\* taken exactly and rounded to the cent, halves upward: the balance after is
\* the balance before plus that amount
C20_FinalAmount ==
    (/\ resp.op = "mature_time_deposit"
     /\ resp.status = "ok"
     /\ resp.deposit_id \in DOMAIN deposits_before)
        => LET deposit == deposits_before[resp.deposit_id]
               cents == Scale(deposit.amount, MinE(deposit.amount, Zero))
                           \div Pow10(-2 - MinE(deposit.amount, Zero))
               permille == Scale(deposit.interest_rate, -3)
               twelfths == cents * permille * deposit.duration_months
               interest == IF 2 * (twelfths % 12000) >= 12000
                           THEN (twelfths \div 12000) + 1
                           ELSE twelfths \div 12000
               credited == Dec(cents + interest, -2)
           IN  DecEq(accounts[deposit.account_number].balance,
                     DecAdd(before[deposit.account_number].balance, credited))

(***************************************************************************)
(* C21  Journal completeness.  Every step that changes the balance of an   *)
(* account appends exactly one journal record for that account, whose      *)
(* balance_before and balance_after are the balances of the account before *)
(* and after the step; and every journal record a step appends belongs to  *)
(* an account whose balance that step changed.  (Deposit, Withdraw, each   *)
(* leg of a transfer, the lock and the maturity of a time deposit.)        *)
(***************************************************************************)
C21_JournalComplete ==
    [][LET added == {i \in 1..Len(journal') : i > Len(journal)}
           changed == {a \in DOMAIN accounts \cap DOMAIN accounts' :
                          ~DecEq(accounts'[a].balance, accounts[a].balance)}
       IN  /\ Len(journal') >= Len(journal)
           /\ \A a \in changed :
                 /\ Cardinality({i \in added : journal'[i].account_number = a}) = 1
                 /\ \A i \in added :
                       journal'[i].account_number = a =>
                          /\ DecEq(journal'[i].balance_before, accounts[a].balance)
                          /\ DecEq(journal'[i].balance_after, accounts'[a].balance)
           /\ \A i \in added : journal'[i].account_number \in changed]_vars

(***************************************************************************)
(* C22  Transfer journal pairing.  A successful Transfer appends exactly   *)
(* two journal records: a transfer_out on the sender and a transfer_in on  *)
(* the recipient, both of the transferred amount, with one reference_id    *)
(* that no earlier record carries, each with the balances of its account   *)
(* before and after the transfer.  A failed Transfer appends none.  Stated  *)
(* for the ledger that keeps a journal, PostgreSQLAccountDatabase.         *)
(***************************************************************************)
C22_TransferPairing ==
    [][(impl = "pg" /\ resp'.op = "transfer") =>
          IF resp'.status = "ok"
          THEN /\ Len(journal') = Len(journal) + 2
               /\ SubSeq(journal', 1, Len(journal)) = journal
               /\ LET out == journal'[Len(journal) + 1]
                      in == journal'[Len(journal) + 2]
                  IN  /\ out.transaction_type = "transfer_out"
                      /\ out.account_number = resp'.account
                      /\ in.transaction_type = "transfer_in"
                      /\ in.account_number = resp'.recipient
                      /\ DecEq(out.amount, resp'.amount)
                      /\ DecEq(in.amount, resp'.amount)
                      /\ out.reference_id = in.reference_id
                      /\ \A i \in 1..Len(journal) :
                            journal[i].reference_id # out.reference_id
                      /\ DecEq(out.balance_before, accounts[resp'.account].balance)
                      /\ DecEq(out.balance_after, accounts'[resp'.account].balance)
                      /\ DecEq(in.balance_before, accounts[resp'.recipient].balance)
                      /\ DecEq(in.balance_after, accounts'[resp'.recipient].balance)
          ELSE journal' = journal]_vars

(***************************************************************************)
(* C23  Duration validation.  A request to create a time deposit whose     *)
(* duration_months is outside 1..60 (0 is too short, 61 too long) is       *)
(* rejected by the request validation, and neither an account nor a time   *)
(* deposit has been written.                                               *)
(***************************************************************************)
C23_InvalidDuration ==
    (resp.op = "create_time_deposit" /\ ~(resp.duration_months \in 1..60)) =>
        /\ resp.status = "ValidationError"
        /\ accounts = before
        /\ time_deposits = deposits_before

\* a request of a valid amount on an existing account, 61 months, rejected
C23_Witness ==
    /\ resp.op = "create_time_deposit"
    /\ resp.duration_months = 61
    /\ resp.account \in DOMAIN accounts
    /\ TimeDepositAmountValid(resp.amount)
    /\ resp.status = "ValidationError"

(***************************************************************************)
(* C24  Read idempotence.  GetBalance is a pure read: the request leaves   *)
(* accounts, time deposits, journal and clock as they were, and its answer *)
(* is determined by the stored account alone (the stored balance and       *)
(* last_transaction, or the failure for that account), so that two calls   *)
(* with no mutation between them return identical results.                 *)
(***************************************************************************)
C24_PureRead ==
    [][resp'.op = "get_balance" =>
          /\ UNCHANGED <<accounts, time_deposits, journal, now>>
          /\ resp'.status \in {"ok", "AccountNotFound", "ValidationError", "ServerError"}
          /\ resp'.status = "ok" =>
                /\ resp'.account \in DOMAIN accounts
                /\ resp'.balance = accounts[resp'.account].balance
                /\ resp'.last_transaction = accounts[resp'.account].last_transaction
          /\ resp'.status = "AccountNotFound" =>
                /\ resp'.named = resp'.account
                /\ resp'.account \in DOMAIN accounts =>
                      ~BalanceResponseValid(accounts[resp'.account].balance)
          /\ (resp.op = "get_balance" /\ resp.account = resp'.account
                 /\ resp.status \in {"ok", "AccountNotFound"}
                 /\ resp'.status \in {"ok", "AccountNotFound"}) => resp' = resp]_vars

\* a balance read after a mutation of the account it reads
C24_Witness ==
    /\ resp.op = "get_balance"
    /\ resp.status = "ok"
    /\ resp.last_transaction # None
    /\ accounts = before
    /\ ~DecEq(resp.balance, SeedAccounts[resp.account].balance)

(***************************************************************************)
(* C25  Journal query.  A successful query of the transaction history of   *)
(* an account with limit and offset returns only journal records of that   *)
(* account, no record twice, newest first; the record at position i is the *)
(* (offset + i)-th newest of the account, so exactly the first offset      *)
(* records are skipped; and it returns limit records, or as many as are    *)
(* left after the offset.                                                  *)
(***************************************************************************)
C25_QueryByAccount ==
    (resp.op = "get_transaction_history" /\ resp.status = "ok") =>
        LET rows == resp.transactions
            of_account == {i \in 1..Len(journal) :
                              journal[i].account_number = resp.account}
            left == Cardinality(of_account) - resp.offset
        IN  /\ \A i \in 1..Len(rows) :
                  /\ rows[i].account_number = resp.account
                  /\ \E j \in of_account : journal[j] = rows[i]
                  /\ Cardinality({j \in of_account :
                         journal[j].timestamp > rows[i].timestamp}) < resp.offset + i
                  /\ Cardinality({j \in of_account :
                         journal[j].timestamp >= rows[i].timestamp}) >= resp.offset + i
            /\ \A i, j \in 1..Len(rows) :
                  /\ i < j => rows[i].timestamp >= rows[j].timestamp
                  /\ i # j => rows[i] # rows[j]
            /\ Len(rows) = IF left <= 0 THEN 0
                           ELSE IF left < resp.limit THEN left ELSE resp.limit

\* of three records of the account the query returns the second newest alone,
\* while the journal also holds a record of another account
C25_Witness ==
    /\ resp.op = "get_transaction_history"
    /\ resp.status = "ok"
    /\ resp.limit = 1
    /\ resp.offset = 1
    /\ Len(resp.transactions) = 1
    /\ Cardinality({i \in 1..Len(journal) : journal[i].account_number = resp.account}) = 3
    /\ \E i \in 1..Len(journal) : journal[i].account_number # resp.account
    /\ \E i, j \in 1..Len(journal) :
          /\ journal[i].account_number = resp.account
          /\ journal[j].account_number = resp.account
          /\ journal[i].timestamp < resp.transactions[1].timestamp
          /\ journal[j].timestamp > resp.transactions[1].timestamp

(***************************************************************************)
(* C27  Reset to the seed state.  After reset_test_data, whatever requests *)
(* came before, the accounts 123456, 789012 and 555444 exist with the      *)
(* balances 1000.00, 500.00 and 0.00 and with last_transaction None.       *)
(***************************************************************************)
C27_Reset ==
    resp.op = "reset" =>
        /\ {"123456", "789012", "555444"} \subseteq DOMAIN accounts
        /\ accounts["123456"] = Account(Dec(100000, -2), None)
        /\ accounts["789012"] = Account(Dec(50000, -2), None)
        /\ accounts["555444"] = Account(Dec(0, -2), None)

\* a reset that found changed balances and transaction times on two accounts
C27_Witness ==
    /\ resp.op = "reset"
    /\ ~DecEq(before["123456"].balance, Dec(100000, -2))
    /\ before["123456"].last_transaction # None
    /\ ~DecEq(before["789012"].balance, Dec(50000, -2))
    /\ before["789012"].last_transaction # None
    /\ accounts # before

(***************************************************************************)
(* C28  Concurrent overdraw prevention.  Two withdrawals run concurrently  *)
(* against an account of balance B, with amounts a1 <= B and a2 <= B and   *)
(* a1 + a2 > B, and nothing else runs: in no state have both succeeded,    *)
(* and in no state is the balance negative.                                *)
(***************************************************************************)
C28_ConcurrentOverdraw ==
    \A t1, t2 \in 1..NThreads :
        (/\ t1 # t2
         /\ threads[t1].op = "withdraw"
         /\ threads[t2].op = "withdraw"
         /\ threads[t1].account = threads[t2].account
         /\ \A t \in 1..NThreads \ {t1, t2} : threads[t].op = "none"
         /\ DecLe(threads[t1].amount, SeedAccounts[threads[t1].account].balance)
         /\ DecLe(threads[t2].amount, SeedAccounts[threads[t1].account].balance)
         /\ DecLt(SeedAccounts[threads[t1].account].balance,
                  DecAdd(threads[t1].amount, threads[t2].amount)))
            => /\ ~(threads[t1].status = "ok" /\ threads[t2].status = "ok")
               /\ DecLe(Zero, accounts[threads[t1].account].balance)

(***************************************************************************)
(* C29  Conservation under concurrency.  When transfers between the same   *)
(* two accounts (in the same or in opposite directions) have run           *)
(* concurrently, each has completed with success or InsufficientFunds, and *)
(* nothing else has run, the balances are those of the transfers executed  *)
(* one after another: the sender of each successful transfer is debited    *)
(* once and its recipient credited once, so the total of the two balances  *)
(* is what it was.                                                         *)
(***************************************************************************)
C29_SerialOutcome ==
    (\A t \in 1..NThreads : /\ threads[t].op = "transfer"
                              /\ threads[t].pc = "done"
                              /\ threads[t].status \in {"ok", "InsufficientFunds"})
        => LET moved(a, b) ==
                   Cardinality({t \in 1..NThreads :
                                   /\ threads[t].account = a
                                   /\ threads[t].recipient = b
                                   /\ threads[t].status = "ok"})
               net == moved(ThreadRecipient, ThreadAccount)
                         - moved(ThreadAccount, ThreadRecipient)
           IN  /\ DecEq(accounts[ThreadAccount].balance,
                        DecAdd(SeedAccounts[ThreadAccount].balance,
                               DecMul(ThreadAmount, Dec(net, 0))))
               /\ DecEq(accounts[ThreadRecipient].balance,
                        DecSub(SeedAccounts[ThreadRecipient].balance,
                               DecMul(ThreadAmount, Dec(net, 0))))

(***************************************************************************)
(* C30  Concurrent maturity.  When concurrent requests to mature the same  *)
(* active time deposit have all run to their end, at most one of them has  *)
(* succeeded, every other one has failed with AlreadyMatured, and the      *)
(* final amount has been credited to the account at most once.             *)
(***************************************************************************)
C30_ConcurrentMaturity ==
    (\A t \in 1..NThreads : threads[t].op = "mature" /\ threads[t].pc = "done")
        => LET succeeded == {t \in 1..NThreads : threads[t].status = "ok"}
               locked == DecSub(SeedAccounts[ThreadAccount].balance,
                                time_deposits[ThreadDeposit].amount)
           IN  /\ Cardinality(succeeded) <= 1
               /\ \A t \in 1..NThreads \ succeeded : threads[t].status = "AlreadyMatured"
               /\ DecLe(accounts[ThreadAccount].balance,
                        DecAdd(locked, final_amount(time_deposits[ThreadDeposit])))

(***************************************************************************)
(* C26  Deadlock freedom and termination.  Under fair scheduling every     *)
(* transfer that has started comes to its end, with success or with a      *)
(* failure, whatever transfers run beside it: in particular two transfers  *)
(* in opposite directions between the same accounts both terminate.        *)
(***************************************************************************)
C26_Termination ==
    \A t \in 1..NThreads : (threads[t].pc # "idle") ~> (threads[t].pc = "done")

\* two sessions have run transfers in opposite directions to their end, the
\* rows updated in opposite orders, and both have committed
C26_Witness ==
    /\ impl = "pg"
    /\ \E t, u \in 1..NThreads :
          /\ threads[t].account = threads[u].recipient
          /\ threads[t].recipient = threads[u].account
          /\ threads[t].pc = "done"
          /\ threads[u].pc = "done"
          /\ threads[t].status = "ok"
          /\ threads[u].status = "ok"
    /\ Len(journal) >= 4

\* C31: a time deposit operation is all or nothing whichever of its steps
\* fails: after create_time_deposit the balance of the account fell exactly
\* when a deposit record was added, and after mature_time_deposit the balance
\* of the owner rose exactly when the deposit became matured
C31_TimeDepositAtomic ==
    /\ resp.op = "create_time_deposit" /\ resp.account \in DOMAIN before
       => (accounts[resp.account].balance # before[resp.account].balance
           <=> Len(time_deposits) > Len(deposits_before))
    /\ resp.op = "mature_time_deposit" /\ resp.deposit_id \in DOMAIN deposits_before
       => LET a == deposits_before[resp.deposit_id].account_number
          IN  accounts[a].balance # before[a].balance
              <=> /\ time_deposits[resp.deposit_id].is_matured
                  /\ ~deposits_before[resp.deposit_id].is_matured

\* C32: in every reachable state every balance is a whole number of cents:
\* no sequence of deposits, withdrawals, transfers, time deposit creations and
\* maturations leaves a balance with a fraction of a cent
C32_WholeCents == \A a \in DOMAIN accounts : DecEq(Quantize2(accounts[a].balance), accounts[a].balance)

\* C33: the set of accounts never shrinks: every account a request found is
\* still there after it, and create_account on an account number that exists
\* fails and leaves the balance of that account unchanged
C33_AccountsKept ==
    /\ DOMAIN before \subseteq DOMAIN accounts
    /\ resp.op = "create_account" /\ resp.account \in DOMAIN before
       => /\ resp.status # "ok"
          /\ accounts[resp.account].balance = before[resp.account].balance

\* a second create_account on the account a first one created, after which the
\* store holds four accounts
C33_Witness ==
    /\ resp.op = "create_account" /\ resp.account = "999999"
    /\ resp.account \in DOMAIN before
    /\ resp.status = "BadRequest"
    /\ Cardinality(DOMAIN accounts) = 4

\* C34: frame.  A deposit or a withdrawal on an account, successful or
\* failed, changes no other account; a transfer changes no account other than
\* its sender and its recipient; creating or maturing a time deposit changes
\* no account other than the owner of the deposit and no deposit other than
\* the one named
C34_Frame ==
    LET kept(touched) == \A n \in DOMAIN before \ touched : accounts[n] = before[n]
        deposits_kept(named) ==
            \A d \in DOMAIN deposits_before \ named : time_deposits[d] = deposits_before[d]
    IN  /\ resp.op \in {"deposit", "withdraw"} => kept({resp.account}) /\ deposits_kept({})
        /\ resp.op = "transfer" => kept({resp.account, resp.recipient}) /\ deposits_kept({})
        /\ resp.op = "create_time_deposit" => kept({resp.account}) /\ deposits_kept({})
        /\ resp.op = "mature_time_deposit"
           => /\ deposits_kept({resp.deposit_id})
              /\ IF resp.deposit_id \in DOMAIN deposits_before
                 THEN kept({deposits_before[resp.deposit_id].account_number})
                 ELSE kept({})

\* a successful transfer that found an earlier time deposit and an account
\* that is neither its sender nor its recipient
C34_Witness ==
    /\ resp.op = "transfer" /\ resp.status = "ok"
    /\ accounts[resp.account].balance # before[resp.account].balance
    /\ accounts[resp.recipient].balance # before[resp.recipient].balance
    /\ DOMAIN before \ {resp.account, resp.recipient} # {}
    /\ deposits_before # <<>>

\* the money of a ledger: the balances of its accounts and the principals of
\* its time deposits that have not matured
RECURSIVE Balances(_, _)
Balances(accts, names) ==
    IF names = {} THEN Zero
    ELSE LET n == CHOOSE n \in names : TRUE
         IN  DecAdd(accts[n].balance, Balances(accts, names \ {n}))

RECURSIVE ActivePrincipals(_, _)
ActivePrincipals(deposits, k) ==
    IF k = 0 THEN Zero
    ELSE DecAdd(IF deposits[k].is_matured THEN Zero ELSE deposits[k].amount,
                ActivePrincipals(deposits, k - 1))

TotalMoney(accts, deposits) ==
    DecAdd(Balances(accts, DOMAIN accts), ActivePrincipals(deposits, Len(deposits)))

\* C35: the balances of all accounts plus the principals of all active time
\* deposits are unchanged by every transfer and every time deposit creation,
\* successful or failed, rise by the amount on a successful deposit, fall by
\* the amount on a successful withdrawal, and rise by the final amount less
\* the principal on a successful maturity
C35_TotalMoney ==
    LET found == TotalMoney(before, deposits_before)
        left == TotalMoney(accounts, time_deposits)
    IN  /\ resp.op \in {"transfer", "create_time_deposit"} => DecEq(left, found)
        /\ resp.op = "deposit" /\ resp.status = "ok" => DecEq(left, DecAdd(found, resp.amount))
        /\ resp.op = "withdraw" /\ resp.status = "ok" => DecEq(left, DecSub(found, resp.amount))
        /\ resp.op = "mature_time_deposit" /\ resp.status = "ok"
           => LET deposit == deposits_before[resp.deposit_id]
                  final == IF impl = "pg" THEN time_deposits[resp.deposit_id].final_amount
                           ELSE final_amount(deposit)
              IN  DecEq(left, DecAdd(found, DecSub(final, deposit.amount)))

\* a successful maturity in the in-memory ledger of a deposit of 100.20, whose
\* interest of 2.505 the total rose by
C35_Witness ==
    /\ impl = "mem"
    /\ resp.op = "mature_time_deposit" /\ resp.status = "ok"
    /\ deposits_before[resp.deposit_id].amount = Dec(10020, -2)
    /\ DecEq(DecSub(TotalMoney(accounts, time_deposits), TotalMoney(before, deposits_before)),
             Dec(2505, -3))

\* C36: journal continuity in the relational store.  For every account, the
\* transaction rows of the account in append order form a chain, the
\* balance_before of each row being the balance_after of the row before it,
\* and the balance_after of the last row is the stored balance of the account
C36_JournalContinuity ==
    impl = "pg" =>
        \A a \in DOMAIN accounts :
            LET rows == filter_account(journal, a) IN
            /\ \A i, j \in rows :
                   (i < j /\ ~\E k \in rows : i < k /\ k < j)
                       => DecEq(journal[j].balance_before, journal[i].balance_after)
            /\ \A i \in rows :
                   (\A k \in rows : k <= i)
                       => DecEq(journal[i].balance_after, accounts[a].balance)

(***************************************************************************)
(* C37  Rate limiting.  The middleware gives to the application, for each  *)
(* client address, at most calls requests within any window of period      *)
(* seconds.  A request is passed on exactly when fewer than calls requests *)
(* of its client were passed on in the period before it; otherwise it is   *)
(* rejected with 429, not passed on and not counted.  The requests of one  *)
(* client leave the lists, and so the decisions, of every other client     *)
(* untouched.                                                              *)
(***************************************************************************)
C37_RateLimit ==
    [][(resp'.op = "dispatch" /\ now' = now)
        => LET client_ip == resp'.account
               in_period == {i \in DOMAIN forwarded[client_ip] :
                                now - forwarded[client_ip][i] < period}
           IN  /\ IF Cardinality(in_period) < calls
                  THEN /\ resp'.status = "ok"
                       /\ forwarded'[client_ip] = Append(forwarded[client_ip], now)
                  ELSE /\ resp'.status = "RateLimit"
                       /\ forwarded'[client_ip] = forwarded[client_ip]
                       /\ Len(requests'[client_ip]) <= Len(requests[client_ip])
               /\ \A other \in Clients \ {client_ip} :
                      /\ forwarded'[other] = forwarded[other]
                      /\ requests'[other] = requests[other]
               /\ \A c \in Clients, w \in 0..horizon :
                      Cardinality({i \in DOMAIN forwarded'[c] :
                                      w <= forwarded'[c][i] /\ forwarded'[c][i] < w + period})
                          <= calls]_vars

\* a request rejected with 429 of a client whose requests were passed on again
\* after a period had gone by, while another client's requests were passed on
C37_Witness ==
    /\ resp.op = "dispatch" /\ resp.status = "RateLimit"
    /\ Len(forwarded[resp.account]) > calls
    /\ \E other \in Clients \ {resp.account} : forwarded[other] # <<>>

(***************************************************************************)
(* C38  TestDatabase is one object for the whole process.  Every           *)
(* construction returns the same instance; the first construction installs *)
(* the seed accounts, and a later construction leaves every stored account *)
(* as it found it.                                                         *)
(***************************************************************************)
C38_Singleton ==
    resp.op = "TestDatabase"
        => /\ resp.instance = 1 /\ instance = 1
           /\ initialized
           /\ IF DOMAIN before = {} THEN accounts = SeedAccounts ELSE accounts = before

\* a construction that found a balance other than the seed's and left it
C38_Witness ==
    /\ resp.op = "TestDatabase"
    /\ DOMAIN before # {}
    /\ accounts["123456"].balance # SeedAccounts["123456"].balance

====
